---- MODULE Spec2Model ----
(***************************************************************************)
(* R2Framework: the UI-TARS action interpreter                             *)
(* (database/agents/uitars.py) and the recovery execution loop             *)
(* standalone_uitars that drives it over the robot's websocket             *)
(* (agent_tools/image.py, agent_tools/hooks.py).                           *)
(*                                                                         *)
(* A model turn is the text of one model response.  The text is kept in    *)
(* the structured form the parser recovers from it:                        *)
(*   marker   the literal "Action:" occurs in the text                     *)
(*   clauses  the pieces of the text after the last "Action: ", split on   *)
(*            ")\n\n"; each clause is                                      *)
(*     form      "call"          name(key=value, ...) that ast.parse reads *)
(*               "garbage"       text ast.parse rejects                    *)
(*               "type_noquote"  contains "type(content" but does not      *)
(*                               match type\(content='(.*?)'\)             *)
(*     function  the called name                                           *)
(*     args      the keyword arguments in order, each                      *)
(*       name  the keyword                                                 *)
(*       kind  "str" a string literal, "box" a string literal holding a    *)
(*             parenthesised tuple of numbers, "num" a number literal,     *)
(*             "nonlit" any expression that is no constant                 *)
(*       s     the text of a "str"                                         *)
(*       nums  the numbers of a "box"                                      *)
(* A float n/d the code computes is kept as the exact pair <<n, d>>.       *)
(*                                                                         *)
(* Specifications:                                                         *)
(*   Spec         standalone_uitars, the execution loop                    *)
(*   SpecParse    parse_action_to_structure_output and                     *)
(*                parsing_response_to_pyautogui_code on one model turn     *)
(*   SpecResize   smart_resize on one frame size                           *)
(*   SpecShot     request_remote_screenshot and the action exchange of the *)
(*                loop on one connection                                   *)
(*   SpecLimiter  LimitToolCounts under the invocations of its agent       *)
(*   SpecHooks    AgentLoggingHook under the calls of agents and their     *)
(*                sub-agents in one process                                *)
(*   SpecLive     Spec under the fairness of its scheduling                *)
(***************************************************************************)
EXTENDS Integers, Sequences, FiniteSets, TLC

\* ------------------------------------------------------------------------
\* Bounds of the model
\* ------------------------------------------------------------------------

\* Config.MAX_ACTIONS_ALLOWED, the configured ceiling of the loop
MaxActionsAllowed == 3

\* ------------------------------------------------------------------------
\* Program constants
\* ------------------------------------------------------------------------

IMAGE_FACTOR == 28
MIN_PIXELS == 100 * 28 * 28
MAX_PIXELS == 16384 * 28 * 28
MAX_RATIO == 200

\* ------------------------------------------------------------------------
\* Results of functions that may raise
\* ------------------------------------------------------------------------

Max(a, b) == IF a >= b THEN a ELSE b
Min(a, b) == IF a <= b THEN a ELSE b

\* ------------------------------------------------------------------------
\* smart_resize and its helpers (exact arithmetic for the float operations)
\* ------------------------------------------------------------------------

RECURSIVE IsqrtBetween(_, _, _)
\* the largest k in lo..hi with k*k <= n (lo*lo <= n is given)
IsqrtBetween(n, lo, hi) ==
    IF lo >= hi THEN lo
    ELSE LET mid == (lo + hi + 1) \div 2
         IN  IF mid * mid <= n THEN IsqrtBetween(n, mid, hi)
             ELSE IsqrtBetween(n, lo, mid - 1)

\* floor(sqrt(n)) for 0 <= n < 2^31
FloorSqrt(n) == IsqrtBetween(n, 0, 46340)

\* ceil(sqrt(n))
CeilSqrt(n) == LET k == FloorSqrt(n) IN IF k * k = n THEN k ELSE k + 1

\* the dimension left as it is
round_by_factor_NoRound(number, factor) == number

\* round(number / factor) * factor: Python rounds a half to the even integer
round_by_factor(number, factor) ==
    LET q == number \div factor
        r == number % factor
        rounded == IF 2 * r < factor THEN q
                   ELSE IF 2 * r > factor THEN q + 1
                   ELSE IF q % 2 = 0 THEN q ELSE q + 1
    IN  rounded * factor

\* The float quotients height / beta / factor and width / beta / factor are
\* rounded: where the exact quotient is an integer k the computed one is k or
\* lies just below or just above it (smart_resize(5000, 5000) is (3556, 3556),
\* smart_resize(1, 169) is (28, 3668)).  fp_err is the sign of that error for
\* the height and for the width.
VARIABLE fp_err

\* floor_by_factor(height / beta, factor) with beta = sqrt(height*width/MAX_PIXELS):
\* floor(sqrt(side*side*MAX_PIXELS / (side*other*factor^2))) * factor, and
\* MAX_PIXELS / factor^2 = 16384 for the default factor and band
floor_by_factor_scaled(side, other, factor, err) ==
    LET num   == (MAX_PIXELS \div (factor * factor)) * side
        k     == FloorSqrt(num \div other)
        exact == num % other = 0 /\ k * k = num \div other
    IN  (IF exact /\ err < 0 THEN k - 1 ELSE k) * factor

\* ceil_by_factor(height * beta, factor) with beta = sqrt(MIN_PIXELS/(height*width)):
\* ceil(sqrt(side * (MIN_PIXELS / factor^2) / other)) * factor
ceil_by_factor_scaled(side, other, factor, err) ==
    LET num   == (MIN_PIXELS \div (factor * factor)) * side
        c     == (num + other - 1) \div other
        k     == CeilSqrt(c)
        exact == num % other = 0 /\ k * k = c
    IN  (IF exact /\ err > 0 THEN k + 1 ELSE k) * factor

\* smart_resize(height, width) with the default factor and pixel band
smart_resize(height, width) ==
    IF Max(height, width) > MAX_RATIO * Min(height, width)
    THEN [exc |-> "ValueError", h |-> 0, w |-> 0]
    ELSE LET h_bar == Max(IMAGE_FACTOR, round_by_factor(height, IMAGE_FACTOR))
             w_bar == Max(IMAGE_FACTOR, round_by_factor(width, IMAGE_FACTOR))
         IN  IF (h_bar \div IMAGE_FACTOR) * (w_bar \div IMAGE_FACTOR)
                    > MAX_PIXELS \div (IMAGE_FACTOR * IMAGE_FACTOR)
             THEN [exc |-> "none",
                   h |-> floor_by_factor_scaled(height, width, IMAGE_FACTOR, fp_err[1]),
                   w |-> floor_by_factor_scaled(width, height, IMAGE_FACTOR, fp_err[2])]
             ELSE IF h_bar * w_bar < MIN_PIXELS
             THEN [exc |-> "none",
                   h |-> ceil_by_factor_scaled(height, width, IMAGE_FACTOR, fp_err[1]),
                   w |-> ceil_by_factor_scaled(width, height, IMAGE_FACTOR, fp_err[2])]
             ELSE [exc |-> "none", h |-> h_bar, w |-> w_bar]

\* ------------------------------------------------------------------------
\* Text Segmenter, Call Expression Parser, Normalizer, Canonicalizer:
\* parse_action_to_structure_output
\* ------------------------------------------------------------------------

\* The interpreter the program runs on: parse_action names ast.Str, which the ast
\* module has up to Python 3.13 and no longer has from Python 3.14 on.
VARIABLE ast_has_Str

\* text.replace("start_point=", "start_box="), ("end_point=", "end_box="),
\* ("point=", "start_box=") on the keyword of an argument
RenamePoint(name) ==
    CASE name = "start_point" -> "start_box"
      [] name = "end_point"   -> "end_box"
      [] name = "point"       -> "start_box"
      [] OTHER                -> name

\* "key" in param_name
HasKey(name) == name \in {"key", "hotkey"}

\* "press" in param_name
HasPress(name) == name = "press"

\* "start_box" in param_name or "end_box" in param_name
HasBox(name) == name \in {"start_box", "end_box"}

\* param.lstrip() on the strings of the model
LStrip(s) ==
    CASE s = " "      -> ""
      [] s = " enter" -> "enter"
      [] OTHER        -> s

\* the match statement on a key value
CanonKey(param) ==
    CASE param = "arrowleft"  -> "left"
      [] param = "arrowright" -> "right"
      [] param = "arrowup"    -> "up"
      [] param = "arrowdown"  -> "down"
      [] param = "space"      -> " "
      [] OTHER                -> param

\* NormalizeActionType with click rewritten to its documented alias left_single
NormalizeActionType_ClickAlias(function) ==
    CASE function = "press"   -> "keydown"
      [] function = "release" -> "keyup"
      [] function = "click"   -> "left_single"
      [] OTHER                -> function

\* the rewriting of the function name into the action type
NormalizeActionType(function) ==
    CASE function = "press"   -> "keydown"
      [] function = "release" -> "keyup"
      [] OTHER                -> function

\* action_inputs[name] = value
Put(inputs, name, value) ==
    [n \in (DOMAIN inputs) \cup {name} |-> IF n = name THEN value ELSE inputs[n]]

StrVal(s) == [kind |-> "str", s |-> s, box |-> <<>>]
BoxVal(b) == [kind |-> "floats", s |-> "", box |-> b]

\* num / smart_resize_height for the 2nd, 4th, ... number, num / smart_resize_width
\* for the others
NormalizeNumbers(nums, sr) ==
    [i \in 1..Len(nums) |-> IF i % 2 = 0 THEN <<nums[i], sr.h>> ELSE <<nums[i], sr.w>>]

\* the divisors of the two resize policies: the smart_resize dimensions for
\* model_type "qwen25vl", the factor (IMAGE_FACTOR by default) for any other
Divisors(model_type, height, width) ==
    IF model_type = "qwen25vl" THEN smart_resize(height, width)
    ELSE [exc |-> "none", h |-> IMAGE_FACTOR, w |-> IMAGE_FACTOR]

\* the point left as the model wrote it
ExpandPoint_NoExpand(fl) == fl

\* a 2-number point becomes the box [x, y, x, y]
ExpandPoint(fl) ==
    IF Len(fl) = 2 THEN <<fl[1], fl[2], fl[1], fl[2]>> ELSE fl

RECURSIVE BuildInputs(_, _, _, _, _)
\* the loop over params.items() that fills action_inputs
BuildInputs(action_type, args, i, inputs, sr) ==
    IF i > Len(args) THEN [exc |-> "none", inputs |-> inputs]
    ELSE LET a == args[i] IN
      IF a.kind = "str" /\ a.s = "" THEN BuildInputs(action_type, args, i + 1, inputs, sr)
      ELSE IF a.kind \in {"nonlit", "num"}
      THEN [exc |-> "AttributeError", inputs |-> inputs]
      ELSE
        LET name0 == RenamePoint(a.name)
            name  == IF action_type = "hotkey" /\ HasKey(name0) THEN "hotkey" ELSE name0
            isKey == HasPress(name) \/ HasKey(name)
            param == IF a.kind = "str"
                     THEN (IF isKey THEN CanonKey(LStrip(a.s)) ELSE LStrip(a.s))
                     ELSE ""
            in1   == IF isKey
                     THEN Put(inputs, "key", IF a.kind = "str" THEN StrVal(param)
                                             ELSE [kind |-> "boxstr", s |-> "", box |-> a.nums])
                     ELSE inputs
        IN  IF HasBox(name)
            THEN IF a.kind = "box" /\ Len(a.nums) >= 1
                 THEN BuildInputs(action_type, args, i + 1,
                        Put(in1, name, BoxVal(ExpandPoint(NormalizeNumbers(a.nums, sr)))), sr)
                 ELSE [exc |-> "ValueError", inputs |-> in1]
            ELSE BuildInputs(action_type, args, i + 1,
                   Put(in1, name, IF a.kind = "str" THEN StrVal(param)
                                  ELSE [kind |-> "boxstr", s |-> "", box |-> a.nums]), sr)

\* one parsed clause turned into an Action
MakeAction(clause, sr) ==
    LET action_type == NormalizeActionType(clause.function)
        built == BuildInputs(action_type, clause.args, 1, <<>>, sr)
    IN  [exc |-> built.exc,
         action |-> [action_type |-> action_type, action_inputs |-> built.inputs]]

RECURSIVE MakeActions(_, _, _, _)
MakeActions(clauses, i, acc, sr) ==
    IF i > Len(clauses) THEN [exc |-> "none", carries |-> 0, actions |-> acc]
    ELSE LET m == MakeAction(clauses[i], sr)
         IN  IF m.exc # "none" THEN [exc |-> m.exc, carries |-> 0, actions |-> <<>>]
             ELSE MakeActions(clauses, i + 1, Append(acc, m.action), sr)

\* the keyword value is no ast.Constant
NonLiteral(clause) ==
    \E i \in 1..Len(clause.args) : clause.args[i].kind = "nonlit"

\* parse_action: None for text that is no call expression.  A keyword value that
\* is no ast.Constant reaches isinstance(kw.value, ast.Str): with ast.Str the
\* value becomes None, without it the AttributeError is caught and the result
\* is None.
parse_action(clause) ==
    IF clause.form = "call" /\ (ast_has_Str \/ ~NonLiteral(clause))
    THEN [ok |-> TRUE, function |-> clause.function, args |-> clause.args]
    ELSE [ok |-> FALSE, function |-> "", args |-> <<>>]

\* "type(content" in action_str and no match of type\(content='(.*?)'\)
TypePatternMissing(clause) ==
    \/ clause.form = "type_noquote"
    \/ /\ clause.form = "call"
       /\ clause.function = "type"
       /\ Len(clause.args) >= 1
       /\ clause.args[1].name = "content"
       /\ clause.args[1].kind # "str"

\* the first clause parse_action returned None for
FirstUnparsed(clauses) ==
    CHOOSE i \in 1..Len(clauses) :
        /\ ~parse_action(clauses[i]).ok
        /\ \A j \in 1..(i - 1) : parse_action(clauses[j]).ok

\* parse_action_to_structure_output(text, origin_resized_height,
\* origin_resized_width, model_type=model_type); `carries` is the clause the
\* message of the error quotes (0: none)
parse_action_to_structure_output(turn, height, width, model_type) ==
    LET sr == Divisors(model_type, height, width)
    IN  IF sr.exc # "none" THEN [exc |-> sr.exc, carries |-> 0, actions |-> <<>>]
        ELSE IF ~turn.marker THEN [exc |-> "AssertionError", carries |-> 0, actions |-> <<>>]
        ELSE IF \E i \in 1..Len(turn.clauses) : TypePatternMissing(turn.clauses[i])
        THEN [exc |-> "ValueError", carries |-> 0, actions |-> <<>>]
        ELSE IF \E i \in 1..Len(turn.clauses) : ~parse_action(turn.clauses[i]).ok
        THEN [exc |-> "ValueError", carries |-> FirstUnparsed(turn.clauses),
              actions |-> <<>>]
        ELSE MakeActions(turn.clauses, 1, <<>>, sr)

\* ------------------------------------------------------------------------
\* Command Synthesizer: parsing_response_to_pyautogui_code
\* ------------------------------------------------------------------------

\* a primitive command; pts are coordinates in thousandths of a pixel
Cmd(op, keys, text, pts) == [op |-> op, keys |-> keys, text |-> text, pts |-> pts]

\* hotkey.split() on the strings of the model
SplitKeys(s) ==
    CASE s = ""             -> <<>>
      [] s = " "            -> <<>>
      [] s = "ctrl v"       -> <<"ctrl", "v">>
      [] s = "ctrl space"   -> <<"ctrl", "space">>
      [] s = "ctrl shift s" -> <<"ctrl", "shift", "s">>
      [] OTHER              -> <<s>>

\* the arrow-key renaming the synthesizer repeats
ArrowKey(k) ==
    CASE k = "arrowleft"  -> "left"
      [] k = "arrowright" -> "right"
      [] k = "arrowup"    -> "up"
      [] k = "arrowdown"  -> "down"
      [] OTHER            -> k

\* action_inputs.get(name, "") for a string input
GetStr(inputs, name) ==
    IF name \in DOMAIN inputs /\ inputs[name].kind = "str" THEN inputs[name].s ELSE ""

\* the key of a hotkey/keydown/keyup action: "key" if present, else the fallback
KeyInput(inputs, fallback) ==
    IF "key" \in DOMAIN inputs THEN GetStr(inputs, "key") ELSE GetStr(inputs, fallback)

\* content.endswith("\n") or content.endswith("\\n")
EndsWithNewline(s) == s \in {"ok\n"}

\* content.rstrip("\\n").rstrip("\n") when the content ends with a newline
StripNewline(s) == IF s = "ok\n" THEN "ok" ELSE s

\* round(n / d) to the nearest integer, a half to the even one
RoundDiv(n, d) ==
    LET q == n \div d
        r == n % d
    IN  IF 2 * r < d THEN q
        ELSE IF 2 * r > d THEN q + 1
        ELSE IF q % 2 = 0 THEN q ELSE q + 1

\* round(float((a + b) / 2) * dimension, 3) in thousandths, for a = n1/d, b = n2/d
MidPoint(a, b, dimension) ==
    LET n   == (a[1] + b[1]) * dimension
        d   == 2 * a[2]
        ip  == n \div d
        rem == n % d
    IN  ip * 1000 + RoundDiv(rem * 1000, d)

\* a box input is truthy: a non-empty list, or a non-empty string
Truthy(inputs, name) == name \in DOMAIN inputs

Code(cmds) == [exc |-> "none", done |-> FALSE, cmds |-> cmds]
Raises(e) == [exc |-> e, done |-> FALSE, cmds |-> <<>>]

\* the click / left_double / right_single / hover branch
ClickCode(action_type, inputs, image_height, image_width) ==
    IF "start_box" \notin DOMAIN inputs THEN Raises("ValueError")
    ELSE LET b == inputs["start_box"].box IN
      IF inputs["start_box"].kind # "floats" \/ Len(b) \notin {2, 4} THEN Raises("ValueError")
      ELSE LET x1 == b[1]
               y1 == b[2]
               x2 == IF Len(b) = 4 THEN b[3] ELSE b[1]
               y2 == IF Len(b) = 4 THEN b[4] ELSE b[2]
               x  == MidPoint(x1, x2, image_width)
               y  == MidPoint(y1, y2, image_height)
               op == CASE action_type \in {"left_single", "click"} -> "click_left"
                       [] action_type = "left_double"  -> "double_click_left"
                       [] action_type = "right_single" -> "click_right"
                       [] OTHER                        -> "move_to"
           IN  Code(<<Cmd(op, <<>>, "", <<x, y>>)>>)

\* parsing_response_to_pyautogui_code(action, image_height, image_width)
parsing_response_to_pyautogui_code(action, image_height, image_width) ==
    LET action_type == action.action_type
        inputs == action.action_inputs
    IN
    CASE action_type = "hotkey" ->
            LET hotkey == ArrowKey(KeyInput(inputs, "hotkey"))
                keys == SplitKeys(hotkey)
            IN  IF hotkey = "" THEN Code(<<>>)
                ELSE Code(<<Cmd("hotkey",
                               [i \in 1..Len(keys) |-> IF keys[i] = "space" THEN " " ELSE keys[i]],
                               "", <<>>)>>)
      [] action_type \in {"press", "keydown"} ->
            LET k0 == ArrowKey(KeyInput(inputs, "press"))
                k  == IF k0 = "space" THEN " " ELSE k0
            IN  IF k = "" THEN Code(<<>>) ELSE Code(<<Cmd("keyDown", <<k>>, "", <<>>)>>)
      [] action_type \in {"release", "keyup"} ->
            LET k0 == ArrowKey(KeyInput(inputs, "press"))
                k  == IF k0 = "space" THEN " " ELSE k0
            IN  IF k = "" THEN Code(<<>>) ELSE Code(<<Cmd("keyUp", <<k>>, "", <<>>)>>)
      [] action_type = "type" ->
            LET content == GetStr(inputs, "content")
                paste == <<Cmd("copy", <<>>, StripNewline(content), <<>>),
                           Cmd("hotkey", <<"ctrl", "v">>, "", <<>>),
                           Cmd("sleep", <<>>, "", <<>>)>>
            IN  IF content = "" THEN Code(<<>>)
                ELSE IF EndsWithNewline(content)
                THEN Code(Append(paste, Cmd("press", <<"enter">>, "", <<>>)))
                ELSE Code(paste)
      [] action_type \in {"drag", "select"} ->
            \* eval(start_box) on the list the parser stored raises TypeError
            IF Truthy(inputs, "start_box") /\ Truthy(inputs, "end_box")
            THEN Raises("TypeError")
            ELSE Code(<<>>)
      [] action_type = "scroll" ->
            IF Truthy(inputs, "start_box") THEN Raises("TypeError")
            ELSE LET direction == GetStr(inputs, "direction") IN
                 IF direction = "up" THEN Code(<<Cmd("scroll", <<>>, "5", <<>>)>>)
                 ELSE IF direction = "down" THEN Code(<<Cmd("scroll", <<>>, "-5", <<>>)>>)
                 ELSE Code(<<>>)
      [] action_type \in {"click", "left_single", "left_double", "right_single", "hover"} ->
            ClickCode(action_type, inputs, image_height, image_width)
      [] action_type = "finished" -> [exc |-> "none", done |-> TRUE, cmds |-> <<>>]
      [] OTHER -> Code(<<Cmd("unrecognized", <<>>, action_type, <<>>)>>)

\* ------------------------------------------------------------------------
\* Model turns and frames the loop is exercised with
\* ------------------------------------------------------------------------

Arg(name, kind, str, nums) == [name |-> name, kind |-> kind, s |-> str, nums |-> nums]
Call(function, args) == [form |-> "call", function |-> function, args |-> args]
Turn(marker, clauses) == [marker |-> marker, clauses |-> clauses]

FinishedClause == Call("finished", <<Arg("content", "str", "x", <<>>)>>)
ClickClause    == Call("click", <<Arg("start_box", "box", "", <<100, 200>>)>>)

\* responses of the grounding model: Thought + Action text
LoopTurns ==
    { Turn(TRUE, <<FinishedClause>>),
      Turn(TRUE, <<ClickClause>>),
      Turn(TRUE, <<Call("click", <<>>)>>),
      Turn(TRUE, <<Call("drag", <<Arg("start_box", "box", "", <<10, 20>>),
                                  Arg("end_box", "box", "", <<30, 40>>)>>)>>),
      Turn(TRUE, <<Call("wait", <<>>)>>),
      Turn(TRUE, <<Call("hotkey", <<Arg("key", "str", "ctrl v", <<>>)>>)>>),
      Turn(TRUE, <<[form |-> "garbage", function |-> "", args |-> <<>>]>>),
      Turn(TRUE, <<ClickClause, FinishedClause>>),
      Turn(TRUE, <<ClickClause, Call("wait", <<>>)>>),
      Turn(FALSE, <<>>) }

\* a response whose message has no content[0]["text"]
NoText == [hasText |-> FALSE, turn |-> Turn(FALSE, <<>>)]

Responses == {[hasText |-> TRUE, turn |-> t] : t \in LoopTurns} \cup {NoText}

NoResponse == NoText
NoAction == [action_type |-> "", action_inputs |-> <<>>]

\* Image.open(...).size of the screenshots the client sends: (width, height)
FrameSizes == {<<1000, 2000>>, <<4000, 10>>}

\* ------------------------------------------------------------------------
\* standalone_uitars: the execution loop
\*
\* One action per suspension point (await) of the function, with the synchronous
\* code up to the next suspension point.  The channel and the model answer each
\* call with any of the outcomes the called code can produce.  The trace recorder's
\* register_gui_trace is taken to return normally.
\* ------------------------------------------------------------------------

VARIABLES
    pc,           \* the suspension point standalone_uitars is at
    outcome,      \* how the try statement ended: the value it returns or the error
                  \* it raises, as it reaches the finally block
    iteration,    \* the loop's counter
    response,     \* the model response the next loop pass reads
    image,        \* the number of the frame held in `image` (0: none yet)
    image_size,   \* Image.open(BytesIO(image)).size as last assigned
    action,       \* the parsed action last dispatched or finished
    invocations,  \* calls of agent.invoke_async / agent(...)
    turns,        \* assistant messages in agent.messages
    frameReqs,    \* {"type": "screenshot"} requests sent
    sends,        \* {"type": "action"} messages sent
    results,      \* action results received from the client
    tracesOk,     \* register_gui_trace calls with success=True for a sent action
    tracesFailed, \* register_gui_trace calls with success=False
    tracesDone,   \* register_gui_trace calls for a finished action
    cycles,       \* loop passes that ended with the invocation after a dispatch
    retries,      \* loop passes that ended with the recovery re-prompt
    firstCode,    \* what the first loop pass made of the first response
    lastResult,   \* the last answer of the client to an action dispatch
    lastCall,     \* the last suspension point that returned or raised, and how
    finalised,    \* executions of the finally block
    image_after,  \* the action results received when the frame in `image` was captured
    size_after,   \* the same for the frame `image_size` was taken from
    parsed_all,   \* every action parsed from the response of the current loop pass
    dispatched,   \* the actions sent over the channel in the current loop pass
    delivered,    \* what the caller of standalone_uitars gets: a value or an error
    trace_finished, \* times the finally block marked the agent trace finished
    pstage,       \* interpreter run on its own: "off", "input", "parsed", "synth"
    pin,          \* its input: a turn and the frame size
    pparsed,      \* what parse_action_to_structure_output gave
    pcode,        \* what parsing_response_to_pyautogui_code gave for the first action
    rs_stage,     \* smart_resize run on its own: "off", "input", "done"
    rs_in,        \* its input: height and width
    rs_out,       \* what it returned or raised
    ws_open,      \* request_remote_screenshot on its own: the connection is open
    ws_inbox,     \* messages of the client not yet received
    ws_sent,      \* JSON messages sent to the client
    shot,         \* the current call of request_remote_screenshot
    shots,        \* calls of request_remote_screenshot made
    disp,         \* the current action exchange on the connection (send_json, receive_json)
    dispatches,   \* action exchanges made
    ws_replies,   \* requests the client has answered
    max_tool_counts, \* LimitToolCounts.max_tool_counts
    tool_counts,  \* LimitToolCounts.tool_counts
    in_flight,    \* tool calls intercepted and not yet answered
    lim_last,     \* the last callback of the limiter that ran, and what it did
    lim_calls,    \* intercept_tool calls per tool since the last reset
    lim_refunded, \* a count was lowered since the last reset
    lim_passed,   \* per tool: calls of this invocation let through and not refunded
    lim_stray,    \* this invocation saw a response that answers no intercepted call
    lim_phase,    \* the agent invocation: "idle", "begun", "running" (model called)
    lim_steps,    \* callbacks run, invocations begun
    messages,     \* AgentLoggingHook.messages, the list the class holds
    hooks,        \* the AgentLoggingHook objects constructed, by agent_trace_id
    parent_trace_id, \* invocation_state["parent_trace_id"] (0: no such key)
    agent_traces, \* the AgentTrace rows, by id
    sub_agent_traces, \* the SubAgentTrace rows: <<parent_trace_id, child_trace_id>>
    call_stack,   \* the agents running, the innermost last, by agent_trace_id
    hook_last     \* the last method of an AgentLoggingHook that ran, and its error

vars == <<pc, outcome, iteration, response, image, image_size, action, invocations,
          turns, frameReqs, sends, results, tracesOk, tracesFailed, tracesDone,
          cycles, retries, firstCode, lastResult, lastCall, finalised,
          image_after, size_after, parsed_all, dispatched, delivered, trace_finished,
          pstage, pin, pparsed, pcode, ast_has_Str, fp_err, rs_stage, rs_in, rs_out,
          ws_open, ws_inbox, ws_sent, shot, shots, disp, dispatches, ws_replies,
          max_tool_counts, tool_counts, in_flight, lim_last, lim_calls, lim_refunded,
          lim_passed, lim_stray, lim_phase, lim_steps,
          messages, hooks, parent_trace_id, agent_traces, sub_agent_traces,
          call_stack, hook_last>>

loopVars == <<iteration, response, image, image_size, action>>
channelVars == <<frameReqs, sends, results, lastResult>>
traceVars == <<tracesOk, tracesFailed, tracesDone>>
modelVars == <<invocations, turns>>
passVars == <<cycles, retries, firstCode>>
frameVars == <<image_after, size_after>>
turnVars == <<parsed_all, dispatched>>
exitVars == <<delivered, trace_finished>>
parseVars == <<pstage, pin, pparsed, pcode>>
envVars == <<ast_has_Str, fp_err>>
resizeVars == <<rs_stage, rs_in, rs_out>>
shotVars == <<ws_open, ws_inbox, ws_sent, shot, shots, disp, dispatches, ws_replies>>
limiterVars == <<max_tool_counts, tool_counts, in_flight, lim_last, lim_calls,
                 lim_refunded, lim_passed, lim_stray, lim_phase, lim_steps>>
hookVars == <<messages, hooks, parent_trace_id, agent_traces, sub_agent_traces,
              call_stack, hook_last>>
unitVars == <<envVars, resizeVars, shotVars, limiterVars, hookVars>>
runVars == <<pc, outcome, loopVars, channelVars, traceVars, modelVars, passVars,
             lastCall, finalised, frameVars, turnVars, exitVars>>

NoParse == [exc |-> "none", carries |-> 0, actions |-> <<>>]
NoCode == [exc |-> "none", done |-> FALSE, cmds |-> <<>>]
NoInput == [turn |-> Turn(FALSE, <<>>), size |-> <<0, 0>>, model_type |-> ""]

\* the state right after the call of standalone_uitars
LoopInit ==
    /\ pc = "frame0"
    /\ outcome = "none"
    /\ iteration = 0
    /\ response = NoResponse
    /\ image = 0
    /\ image_size = <<0, 0>>
    /\ action = NoAction
    /\ invocations = 0
    /\ turns = 0
    /\ frameReqs = 0
    /\ sends = 0
    /\ results = 0
    /\ tracesOk = 0
    /\ tracesFailed = 0
    /\ tracesDone = 0
    /\ cycles = 0
    /\ retries = 0
    /\ firstCode = "none"
    /\ lastResult = "none"
    /\ lastCall = [at |-> "none", kind |-> "none"]
    /\ finalised = 0
    /\ image_after = 0
    /\ size_after = 0
    /\ parsed_all = <<>>
    /\ dispatched = <<>>
    /\ delivered = "none"
    /\ trace_finished = 0

\* the interpreter run on its own has not been started
ParseIdle ==
    /\ pstage = "off"
    /\ pin = NoInput
    /\ pparsed = NoParse
    /\ pcode = NoCode

NoSize == [height |-> 0, width |-> 0]
NoResize == [exc |-> "none", h |-> 0, w |-> 0]

\* smart_resize run on its own has not been started
ResizeIdle ==
    /\ rs_stage = "off"
    /\ rs_in = NoSize
    /\ rs_out = NoResize

\* no frame size of FrameSizes and ParseSizes takes smart_resize to a float
\* quotient (they raise or are inside the pixel band)
ExactFloats == fp_err = <<0, 0>>

NoMessage == [kind |-> "none", data |-> "", re |-> 0]
NoShot == [stage |-> "idle", before |-> 0, sent |-> 0, raised |-> "none",
           outcome |-> "none", got |-> NoMessage, data |-> ""]
NoDispatch == [stage |-> "idle", before |-> 0, outcome |-> "none", got |-> NoMessage]

\* request_remote_screenshot run on its own has not been started
ShotIdle ==
    /\ ws_open = FALSE
    /\ ws_inbox = <<>>
    /\ ws_sent = <<>>
    /\ shot = NoShot
    /\ shots = 0
    /\ disp = NoDispatch
    /\ dispatches = 0
    /\ ws_replies = 0

NoTool == ""
NoEvent == [exception |-> "none", status |-> "none", text |-> "plain"]
NoCallback == [hook |-> "none", tool |-> NoTool, cancel_tool |-> "", nth |-> 0,
               before |-> <<>>, event |-> NoEvent]

\* no LimitToolCounts has been constructed
LimiterIdle ==
    /\ max_tool_counts = <<>>
    /\ tool_counts = <<>>
    /\ in_flight = <<>>
    /\ lim_last = NoCallback
    /\ lim_calls = <<>>
    /\ lim_refunded = FALSE
    /\ lim_passed = <<>>
    /\ lim_stray = FALSE
    /\ lim_phase = "idle"
    /\ lim_steps = [callbacks |-> 0, invocations |-> 0]

NoHookCall == [op |-> "none", hook |-> 0, exc |-> "none"]

\* no AgentLoggingHook has been constructed
HooksIdle ==
    /\ messages = <<>>
    /\ hooks = <<>>
    /\ parent_trace_id = 0
    /\ agent_traces = <<>>
    /\ sub_agent_traces = {}
    /\ call_stack = <<>>
    /\ hook_last = NoHookCall

Init ==
    /\ LoopInit
    /\ HooksIdle
    /\ ParseIdle
    /\ ResizeIdle
    /\ ShotIdle
    /\ LimiterIdle
    /\ ast_has_Str \in BOOLEAN
    /\ ExactFloats

\* what one call of request_remote_screenshot + Image.open can produce
FrameOutcomes == {"bytes", "undecodable", "TimeoutError", "WebSocketDisconnect", "RuntimeError"}

\* what one model invocation can raise
InvokeFailures == {"WebSocketDisconnect", "RuntimeError", "OtherError"}

\* what websocket.receive_json() can produce
ResultOutcomes == {"success", "failure", "malformed", "WebSocketDisconnect", "RuntimeError"}

\* the error propagates out of standalone_uitars through the finally block
Raise(err) ==
    /\ outcome' = err
    /\ pc' = "finally"

\* what the loop pass makes of the response it reads: the first parsed action
\* and its code (`all` keeps the whole list the parser returned)
Interpret(resp, size) ==
    LET parsed == parse_action_to_structure_output(resp.turn, size[2], size[1], "qwen25vl")
    IN  IF parsed.exc # "none"
        THEN [exc |-> parsed.exc, done |-> FALSE, action |-> NoAction, all |-> <<>>]
        ELSE LET act  == parsed.actions[1]
                 code == parsing_response_to_pyautogui_code(act, size[2], size[1])
             IN  [exc |-> code.exc, done |-> code.done, action |-> act,
                  all |-> parsed.actions]

\* image = await screenshot_bytes(websocket); image_size = Image.open(...).size
\* before the hook exists and outside every try block
InitialFrame ==
    /\ pc = "frame0"
    /\ frameReqs' = frameReqs + 1
    /\ \E r \in FrameOutcomes :
         /\ lastCall' = [at |-> "frame0", kind |-> r]
         /\ IF r = "bytes"
            THEN /\ image' = image + 1
                 /\ \E sz \in FrameSizes : image_size' = sz
                 /\ image_after' = results
                 /\ size_after' = results
                 /\ pc' = "invoke0"
                 /\ UNCHANGED <<outcome, delivered>>
            ELSE /\ outcome' = (IF r = "undecodable" THEN "OtherError" ELSE r)
                 /\ delivered' = outcome'
                 /\ pc' = "done"
                 /\ image' = (IF r = "undecodable" THEN image + 1 ELSE image)
                 /\ image_after' = (IF r = "undecodable" THEN results ELSE image_after)
                 /\ UNCHANGED <<image_size, size_after>>
    /\ UNCHANGED <<iteration, response, action, sends, results, lastResult,
                   traceVars, modelVars, passVars, finalised, parseVars, unitVars,
                   turnVars, trace_finished>>

\* response = await agent.invoke_async("") ; iteration = 0
FirstInvoke ==
    /\ pc = "invoke0"
    /\ invocations' = invocations + 1
    /\ \/ \E r \in Responses :
            /\ response' = r
            /\ turns' = turns + 1
            /\ lastCall' = [at |-> "first", kind |-> "ok"]
            /\ iteration' = 0
            /\ pc' = "loop"
            /\ UNCHANGED outcome
       \/ \E f \in InvokeFailures :
            /\ lastCall' = [at |-> "first", kind |-> f]
            /\ IF f = "OtherError"
               THEN /\ outcome' = "error_text"
                    /\ pc' = "finally"
               ELSE Raise(f)
            /\ UNCHANGED <<response, turns, iteration>>
    /\ UNCHANGED <<image, image_size, action, channelVars, traceVars, passVars,
                   finalised, parseVars, unitVars, frameVars, turnVars, exitVars>>

\* BudgetExceeded with the ceiling test written >= instead of >
BudgetExceeded_OffByOne ==
    /\ pc = "loop"
    /\ iteration + 1 >= MaxActionsAllowed
    /\ iteration' = iteration + 1
    /\ outcome' = "budget"
    /\ pc' = "finally"
    /\ UNCHANGED <<response, image, image_size, action, channelVars, traceVars,
                   modelVars, passVars, lastCall, finalised, parseVars,
                   unitVars, frameVars, turnVars, exitVars>>

\* iteration += 1; if iteration > Config.MAX_ACTIONS_ALLOWED: return [...]
BudgetExceeded ==
    /\ pc = "loop"
    /\ iteration + 1 > MaxActionsAllowed
    /\ iteration' = iteration + 1
    /\ outcome' = "budget"
    /\ pc' = "finally"
    /\ UNCHANGED <<response, image, image_size, action, channelVars, traceVars,
                   modelVars, passVars, lastCall, finalised, parseVars,
                   unitVars, frameVars, turnVars, exitVars>>

\* response.message.get("content", "")[0].get("text", "") raises: break
ExtractFails ==
    /\ pc = "loop"
    /\ iteration + 1 <= MaxActionsAllowed
    /\ ~response.hasText
    /\ iteration' = iteration + 1
    /\ firstCode' = (IF iteration = 0 THEN "notext" ELSE firstCode)
    /\ outcome' = "history"
    /\ pc' = "finally"
    /\ UNCHANGED <<response, image, image_size, action, channelVars, traceVars,
                   modelVars, cycles, retries, lastCall, finalised, parseVars,
                   unitVars, frameVars, turnVars, exitVars>>

\* ParseFails with the retry pass left out of the counter
ParseFails_NoIncrement ==
    /\ pc = "loop"
    /\ iteration + 1 <= MaxActionsAllowed
    /\ response.hasText
    /\ Interpret(response, image_size).exc # "none"
    /\ firstCode' = (IF iteration = 0 THEN "exc" ELSE firstCode)
    /\ pc' = "recover"
    /\ UNCHANGED <<iteration, outcome, response, image, image_size, action, channelVars,
                   traceVars, modelVars, cycles, retries, lastCall, finalised, parseVars,
                   unitVars, frameVars, turnVars, exitVars>>

\* parse_action_to_structure_output or parsing_response_to_pyautogui_code raises:
\* except Exception -> the recovery re-prompt
ParseFails ==
    /\ pc = "loop"
    /\ iteration + 1 <= MaxActionsAllowed
    /\ response.hasText
    /\ Interpret(response, image_size).exc # "none"
    /\ iteration' = iteration + 1
    /\ firstCode' = (IF iteration = 0 THEN "exc" ELSE firstCode)
    /\ pc' = "recover"
    /\ UNCHANGED <<outcome, response, image, image_size, action, channelVars, traceVars,
                   modelVars, cycles, retries, lastCall, finalised, parseVars,
                   unitVars, frameVars, turnVars, exitVars>>

\* Finished without the break: the finished action is dispatched like any other
Finished_NoBreak ==
    /\ pc = "loop"
    /\ iteration + 1 <= MaxActionsAllowed
    /\ response.hasText
    /\ Interpret(response, image_size).exc = "none"
    /\ Interpret(response, image_size).done
    /\ iteration' = iteration + 1
    /\ firstCode' = (IF iteration = 0 THEN "DONE" ELSE firstCode)
    /\ action' = Interpret(response, image_size).action
    /\ parsed_all' = Interpret(response, image_size).all
    /\ dispatched' = <<>>
    /\ tracesDone' = tracesDone + 1
    /\ pc' = "send"
    /\ UNCHANGED <<outcome, response, image, image_size, channelVars, tracesOk,
                   tracesFailed, modelVars, cycles, retries, lastCall, finalised,
                   parseVars, unitVars, frameVars, exitVars>>

\* code == "DONE": register_gui_trace(success=True); break; return the history
Finished ==
    /\ pc = "loop"
    /\ iteration + 1 <= MaxActionsAllowed
    /\ response.hasText
    /\ Interpret(response, image_size).exc = "none"
    /\ Interpret(response, image_size).done
    /\ iteration' = iteration + 1
    /\ firstCode' = (IF iteration = 0 THEN "DONE" ELSE firstCode)
    /\ action' = Interpret(response, image_size).action
    /\ parsed_all' = Interpret(response, image_size).all
    /\ dispatched' = <<>>
    /\ tracesDone' = tracesDone + 1
    /\ outcome' = "history"
    /\ pc' = "finally"
    /\ UNCHANGED <<response, image, image_size, channelVars, tracesOk, tracesFailed,
                   modelVars, cycles, retries, lastCall, finalised, parseVars, unitVars,
                   frameVars, exitVars>>

\* any other code: the action goes to websocket.send_json
Dispatch ==
    /\ pc = "loop"
    /\ iteration + 1 <= MaxActionsAllowed
    /\ response.hasText
    /\ Interpret(response, image_size).exc = "none"
    /\ ~Interpret(response, image_size).done
    /\ iteration' = iteration + 1
    /\ firstCode' = (IF iteration = 0 THEN "code" ELSE firstCode)
    /\ action' = Interpret(response, image_size).action
    /\ parsed_all' = Interpret(response, image_size).all
    /\ dispatched' = <<>>
    /\ pc' = "send"
    /\ UNCHANGED <<outcome, response, image, image_size, channelVars, traceVars,
                   modelVars, cycles, retries, lastCall, finalised, parseVars, unitVars,
                   frameVars, exitVars>>

\* await websocket.send_json({"type": "action", "content": action})
SendAction ==
    /\ pc = "send"
    /\ \/ /\ sends' = sends + 1
          /\ dispatched' = Append(dispatched, action)
          /\ lastCall' = [at |-> "send", kind |-> "ok"]
          /\ pc' = "result"
          /\ UNCHANGED outcome
       \/ \E e \in {"WebSocketDisconnect", "RuntimeError"} :
            /\ lastCall' = [at |-> "send", kind |-> e]
            /\ Raise(e)
            /\ UNCHANGED <<sends, dispatched>>
    /\ UNCHANGED <<loopVars, frameReqs, results, lastResult, traceVars, modelVars,
                   passVars, finalised, parseVars, unitVars, frameVars, parsed_all,
                   exitVars>>

\* ReceiveResult with a failed action sent down the retry path
ReceiveResult_RetryOnFailure ==
    /\ pc = "result"
    /\ \E r \in ResultOutcomes :
         /\ lastCall' = [at |-> "result", kind |-> r]
         /\ CASE r = "success" ->
                   /\ results' = results + 1
                   /\ lastResult' = "success"
                   /\ tracesOk' = tracesOk + 1
                   /\ pc' = "frame"
                   /\ UNCHANGED <<outcome, tracesFailed>>
              [] r = "failure" ->
                   /\ results' = results + 1
                   /\ lastResult' = "failure"
                   /\ tracesFailed' = tracesFailed + 1
                   /\ pc' = "recover"
                   /\ UNCHANGED <<outcome, tracesOk>>
              [] r = "malformed" ->
                   /\ pc' = "recover"
                   /\ UNCHANGED <<outcome, results, lastResult, tracesOk, tracesFailed>>
              [] OTHER ->
                   /\ Raise(r)
                   /\ UNCHANGED <<results, lastResult, tracesOk, tracesFailed>>
    /\ UNCHANGED <<loopVars, frameReqs, sends, tracesDone, modelVars, passVars,
                   finalised, parseVars, unitVars, frameVars, turnVars, exitVars>>

\* ReceiveResult with the error raised before the failed step is reported
ReceiveResult_NoFailedTrace ==
    /\ pc = "result"
    /\ \E r \in ResultOutcomes :
         /\ lastCall' = [at |-> "result", kind |-> r]
         /\ CASE r = "success" ->
                   /\ results' = results + 1
                   /\ lastResult' = "success"
                   /\ tracesOk' = tracesOk + 1
                   /\ pc' = "frame"
                   /\ UNCHANGED <<outcome, tracesFailed>>
              [] r = "failure" ->
                   /\ results' = results + 1
                   /\ lastResult' = "failure"
                   /\ Raise("RuntimeError")
                   /\ UNCHANGED <<tracesOk, tracesFailed>>
              [] r = "malformed" ->
                   /\ pc' = "recover"
                   /\ UNCHANGED <<outcome, results, lastResult, tracesOk, tracesFailed>>
              [] OTHER ->
                   /\ Raise(r)
                   /\ UNCHANGED <<results, lastResult, tracesOk, tracesFailed>>
    /\ UNCHANGED <<loopVars, frameReqs, sends, tracesDone, modelVars, passVars,
                   finalised, parseVars, unitVars, frameVars, turnVars, exitVars>>

\* ReceiveResult with a step reported for an answer that could not be read
ReceiveResult_TraceUnread ==
    /\ pc = "result"
    /\ \E r \in ResultOutcomes :
         /\ lastCall' = [at |-> "result", kind |-> r]
         /\ CASE r = "success" ->
                   /\ results' = results + 1
                   /\ lastResult' = "success"
                   /\ tracesOk' = tracesOk + 1
                   /\ pc' = "frame"
                   /\ UNCHANGED <<outcome, tracesFailed>>
              [] r = "failure" ->
                   /\ results' = results + 1
                   /\ lastResult' = "failure"
                   /\ tracesFailed' = tracesFailed + 1
                   /\ Raise("RuntimeError")
                   /\ UNCHANGED tracesOk
              [] r = "malformed" ->
                   /\ pc' = "recover"
                   /\ tracesOk' = tracesOk + 1
                   /\ UNCHANGED <<outcome, results, lastResult, tracesFailed>>
              [] OTHER ->
                   /\ Raise(r)
                   /\ UNCHANGED <<results, lastResult, tracesOk, tracesFailed>>
    /\ UNCHANGED <<loopVars, frameReqs, sends, tracesDone, modelVars, passVars,
                   finalised, parseVars, unitVars, frameVars, turnVars, exitVars>>

\* result = await websocket.receive_json() and the register_gui_trace that follows
ReceiveResult ==
    /\ pc = "result"
    /\ \E r \in ResultOutcomes :
         /\ lastCall' = [at |-> "result", kind |-> r]
         /\ CASE r = "success" ->
                   /\ results' = results + 1
                   /\ lastResult' = "success"
                   /\ tracesOk' = tracesOk + 1
                   /\ pc' = "frame"
                   /\ UNCHANGED <<outcome, tracesFailed>>
              [] r = "failure" ->
                   /\ results' = results + 1
                   /\ lastResult' = "failure"
                   /\ tracesFailed' = tracesFailed + 1
                   /\ Raise("RuntimeError")
                   /\ UNCHANGED tracesOk
              [] r = "malformed" ->
                   /\ pc' = "recover"
                   /\ UNCHANGED <<outcome, results, lastResult, tracesOk, tracesFailed>>
              [] OTHER ->
                   /\ Raise(r)
                   /\ UNCHANGED <<results, lastResult, tracesOk, tracesFailed>>
    /\ UNCHANGED <<loopVars, frameReqs, sends, tracesDone, modelVars, passVars,
                   finalised, parseVars, unitVars, frameVars, turnVars, exitVars>>

\* NextFrame without the except WebSocketDisconnect / RuntimeError clauses
NextFrame_SwallowFatal ==
    /\ pc = "frame"
    /\ frameReqs' = frameReqs + 1
    /\ \E r \in FrameOutcomes :
         /\ lastCall' = [at |-> "frame", kind |-> r]
         /\ CASE r = "bytes" ->
                   /\ image' = image + 1
                   /\ \E sz \in FrameSizes : image_size' = sz
                   /\ image_after' = results
                   /\ size_after' = results
                   /\ pc' = "invoke"
                   /\ UNCHANGED outcome
              [] r = "undecodable" ->
                   /\ image' = image + 1
                   /\ image_after' = results
                   /\ pc' = "recover"
                   /\ UNCHANGED <<image_size, size_after, outcome>>
              [] r = "TimeoutError" ->
                   /\ pc' = "recover"
                   /\ UNCHANGED <<image, image_size, frameVars, outcome>>
              [] OTHER ->
                   /\ pc' = "recover"
                   /\ UNCHANGED <<image, image_size, frameVars, outcome>>
    /\ UNCHANGED <<iteration, response, action, sends, results, lastResult, traceVars,
                   modelVars, passVars, finalised, parseVars, unitVars, turnVars,
                   exitVars>>

\* await asyncio.sleep(0.5); image = await screenshot_bytes(websocket);
\* image_size = Image.open(BytesIO(image)).size
NextFrame ==
    /\ pc = "frame"
    /\ frameReqs' = frameReqs + 1
    /\ \E r \in FrameOutcomes :
         /\ lastCall' = [at |-> "frame", kind |-> r]
         /\ CASE r = "bytes" ->
                   /\ image' = image + 1
                   /\ \E sz \in FrameSizes : image_size' = sz
                   /\ image_after' = results
                   /\ size_after' = results
                   /\ pc' = "invoke"
                   /\ UNCHANGED outcome
              [] r = "undecodable" ->
                   /\ image' = image + 1
                   /\ image_after' = results
                   /\ pc' = "recover"
                   /\ UNCHANGED <<image_size, size_after, outcome>>
              [] r = "TimeoutError" ->
                   /\ pc' = "recover"
                   /\ UNCHANGED <<image, image_size, frameVars, outcome>>
              [] OTHER ->
                   /\ Raise(r)
                   /\ UNCHANGED <<image, image_size, frameVars>>
    /\ UNCHANGED <<iteration, response, action, sends, results, lastResult, traceVars,
                   modelVars, passVars, finalised, parseVars, unitVars, turnVars,
                   exitVars>>

\* response = await agent.invoke_async(new_messages)
NextInvoke ==
    /\ pc = "invoke"
    /\ invocations' = invocations + 1
    /\ \/ \E r \in Responses :
            /\ response' = r
            /\ turns' = turns + 1
            /\ lastCall' = [at |-> "invoke", kind |-> "ok"]
            /\ cycles' = cycles + 1
            /\ pc' = "loop"
            /\ UNCHANGED outcome
       \/ \E f \in InvokeFailures :
            /\ lastCall' = [at |-> "invoke", kind |-> f]
            /\ IF f = "OtherError"
               THEN /\ pc' = "recover"
                    /\ UNCHANGED outcome
               ELSE Raise(f)
            /\ UNCHANGED <<response, turns, cycles>>
    /\ parsed_all' = <<>>
    /\ dispatched' = <<>>
    /\ UNCHANGED <<iteration, image, image_size, action, channelVars, traceVars,
                   retries, firstCode, finalised, parseVars, unitVars, frameVars,
                   exitVars>>

\* Recover with a failed re-prompt re-prompted again
Recover_RetryOnError ==
    /\ pc = "recover"
    /\ invocations' = invocations + 1
    /\ \/ \E r \in Responses :
            /\ response' = r
            /\ turns' = turns + 1
            /\ lastCall' = [at |-> "recover", kind |-> "ok"]
            /\ retries' = retries + 1
            /\ pc' = "loop"
            /\ UNCHANGED outcome
       \/ \E f \in InvokeFailures :
            /\ lastCall' = [at |-> "recover", kind |-> f]
            /\ IF f = "OtherError"
               THEN /\ pc' = "recover"
                    /\ UNCHANGED outcome
               ELSE Raise(f)
            /\ UNCHANGED <<response, turns, retries>>
    /\ parsed_all' = <<>>
    /\ dispatched' = <<>>
    /\ UNCHANGED <<iteration, image, image_size, action, channelVars, traceVars,
                   cycles, firstCode, finalised, parseVars, unitVars, frameVars,
                   exitVars>>

\* except Exception: response = agent("The action failed. Try again"); continue
Recover ==
    /\ pc = "recover"
    /\ invocations' = invocations + 1
    /\ \/ \E r \in Responses :
            /\ response' = r
            /\ turns' = turns + 1
            /\ lastCall' = [at |-> "recover", kind |-> "ok"]
            /\ retries' = retries + 1
            /\ pc' = "loop"
            /\ UNCHANGED outcome
       \/ \E f \in InvokeFailures :
            /\ lastCall' = [at |-> "recover", kind |-> f]
            /\ IF f = "OtherError"
               THEN /\ outcome' = "error_text"
                    /\ pc' = "finally"
               ELSE Raise(f)
            /\ UNCHANGED <<response, turns, retries>>
    /\ parsed_all' = <<>>
    /\ dispatched' = <<>>
    /\ UNCHANGED <<iteration, image, image_size, action, channelVars, traceVars,
                   cycles, firstCode, finalised, parseVars, unitVars, frameVars,
                   exitVars>>

\* AgentLoggingHook.update_trace(self, finished=False) called with the given
\* keyword arguments: a keyword the signature does not have is a TypeError raised
\* by the call itself; otherwise RuntimeError when the AgentTrace row is missing,
\* else the row gets the messages and, with finished, its finished_at
update_trace(kwargs, trace_exists) ==
    IF ~(kwargs \subseteq {"finished"}) THEN [exc |-> "TypeError", finished |-> FALSE]
    ELSE IF ~trace_exists THEN [exc |-> "RuntimeError", finished |-> FALSE]
    ELSE [exc |-> "none", finished |-> "finished" \in kwargs]

\* finally: cost = -1.0; hook.update_trace(finished=True, cost=cost)
\* an error raised in the finally block replaces the value being returned or the
\* error being propagated
Finalise ==
    /\ pc = "finally"
    /\ finalised' = finalised + 1
    /\ LET r == update_trace({"finished", "cost"}, TRUE)
       IN  /\ trace_finished' = (IF r.finished THEN trace_finished + 1 ELSE trace_finished)
           /\ delivered' = (IF r.exc = "none" THEN outcome ELSE r.exc)
    /\ pc' = "done"
    /\ UNCHANGED <<outcome, loopVars, channelVars, traceVars, modelVars, passVars,
                   lastCall, parseVars, unitVars, frameVars, turnVars>>

Next ==
    \/ InitialFrame
    \/ FirstInvoke
    \/ BudgetExceeded
    \/ ExtractFails
    \/ ParseFails
    \/ Finished
    \/ Dispatch
    \/ SendAction
    \/ ReceiveResult
    \/ NextFrame
    \/ NextInvoke
    \/ Recover
    \/ Finalise

Spec == Init /\ [][Next]_vars

\* every call the loop awaits returns or raises (weak fairness of the steps taken
\* from a suspension point), and the synchronous code at the head of a loop pass
\* runs on to the next suspension point
Fairness == WF_vars(pc # "loop" /\ Next) /\ []<>(pc # "loop")

SpecLive == Init /\ [][Next]_vars /\ Fairness

\* ------------------------------------------------------------------------
\* Properties of the execution loop
\* ------------------------------------------------------------------------

\* standalone_uitars has returned or is unwinding through the finally block
Ended == pc \in {"finally", "done"}

\* the errors that leave standalone_uitars as exceptions
Fatal == {"WebSocketDisconnect", "RuntimeError", "TimeoutError", "OtherError"}

\* the counters of the calls the loop makes to the model, the channel and the recorder
Effects == <<invocations, frameReqs, sends, tracesOk, tracesFailed, tracesDone>>

C3_RetriesNotCounted == pc = "loop" => iteration = cycles

\* C3 amended: every pass counts, the retry passes too: at every loop head the counter
\* is the number of dispatch cycles plus the number of retries, and the
\* budget-exceeded result comes when the two together reach the ceiling.
C3_RetriesCounted ==
    /\ pc = "loop" => iteration = cycles + retries
    /\ outcome = "budget" => cycles + retries = MaxActionsAllowed

\* parse failures alone exhaust the budget
C3_Witness ==
    /\ outcome = "budget" /\ sends = 0 /\ cycles = 0 /\ retries = MaxActionsAllowed

\* C4: after the client answers success=false the loop has reported exactly one
\* failed step for that action, a RuntimeError propagates, and from then on no
\* model invocation, frame request, action dispatch or further step happens.
C4_DispatchFailureIsFatal ==
    /\ [](lastResult = "failure" =>
            /\ tracesFailed = 1
            /\ tracesOk + tracesFailed = results
            /\ Ended /\ outcome = "RuntimeError")
    /\ [][lastResult = "failure" => UNCHANGED <<Effects, retries, cycles, outcome>>]_vars

C4_Witness == pc = "done" /\ lastResult = "failure" /\ tracesFailed = 1

C6_InFlightStepReported ==
    (Ended /\ outcome \in Fatal) => tracesOk + tracesFailed = sends

\* C6 amended: on the dispatch-failure exit the failed step of the action in flight
\* is reported before the error propagates; on a fatal error raised while the
\* action's result is awaited (disconnect, closed socket) no step is reported for it.
C6_OnlyFailureReported ==
    (Ended /\ outcome \in Fatal) =>
        /\ lastResult = "failure" =>
              (tracesFailed = 1 /\ tracesOk + tracesFailed = results /\ lastCall.at = "result")
        /\ (lastCall.at = "result" /\ lastCall.kind # "failure") =>
              (tracesFailed = 0 /\ tracesOk + tracesFailed = results /\ results < sends)

C6_Witness ==
    /\ pc = "done" /\ outcome = "RuntimeError" /\ lastResult = "failure"
    /\ tracesFailed = 1 /\ tracesOk = 1 /\ sends = 2

\* C7: a frame request that times out is fatal wherever it is made: the
\* TimeoutError reaches the caller.
C7_TimeoutIsFatal ==
    lastCall.kind = "TimeoutError" => (Ended /\ outcome = "TimeoutError")

\* C8 as stated: the recorder is invoked exactly once per action sent over the
\* channel and once for the terminal finished step.
C8_OncePerSentAction ==
    pc = "done" =>
        /\ tracesOk + tracesFailed = sends
        /\ tracesDone = (IF action.action_type = "finished" THEN 1 ELSE 0)

\* C8 amended: the recorder is invoked exactly once per action whose result
\* (success or failure) was read from the channel and once for the terminal finished
\* step, and at no other time; an action sent whose result never arrives or cannot be
\* read gets no step.
C8_OncePerResult ==
    /\ tracesOk + tracesFailed = results
    /\ results <= sends
    /\ tracesFailed <= 1
    /\ tracesDone = (IF action.action_type = "finished" THEN 1 ELSE 0)
    /\ tracesDone = 1 => (Ended /\ outcome = "history")

C8_Witness ==
    /\ pc = "done" /\ tracesDone = 1 /\ tracesOk = 1 /\ results = 1 /\ sends = 2

\* the places where the model is invoked
InvokePoints == {"first", "invoke", "recover"}

Functions ==
    {"click", "left_single", "left_double", "right_single", "hover", "drag", "select",
     "scroll", "hotkey", "press", "release", "keydown", "keyup", "type", "wait",
     "finished"}

\* keyword-argument lists a clause is written with
ArgLists ==
    { <<>>,
      <<Arg("start_box", "box", "", <<100, 200>>)>>,
      <<Arg("start_box", "box", "", <<100, 200, 300, 400>>)>>,
      <<Arg("point", "box", "", <<500, 600>>)>>,
      <<Arg("start_box", "box", "", <<10, 20>>), Arg("end_box", "box", "", <<30, 40>>)>>,
      <<Arg("start_box", "nonlit", "", <<>>)>>,
      <<Arg("start_box", "str", "abc", <<>>)>>,
      <<Arg("content", "str", "x", <<>>)>>,
      <<Arg("content", "str", "ok\n", <<>>)>>,
      <<Arg("content", "str", "", <<>>)>>,
      <<Arg("key", "str", "arrowdown", <<>>)>>,
      <<Arg("key", "str", "space", <<>>)>>,
      <<Arg("key", "str", "ctrl v", <<>>)>>,
      <<Arg("press", "str", "enter", <<>>)>>,
      <<Arg("hotkey", "str", "ctrl space", <<>>)>>,
      <<Arg("direction", "str", "up", <<>>)>>,
      <<Arg("content", "num", "", <<>>)>>,
      <<Arg("start_box", "box", "", <<1500, 200>>)>>,
      <<Arg("content", "nonlit", "", <<>>)>>,
      <<Arg("key", "nonlit", "", <<>>)>>,
      <<Arg("start_box", "str", "abc", <<>>), Arg("key", "nonlit", "", <<>>)>>,
      <<Arg("point", "box", "", <<500, 600>>), Arg("direction", "str", "down", <<>>)>> }

\* the resize policies: the default "qwen25vl" (smart), and the linear one any
\* other model_type selects
ModelTypes == {"qwen25vl", "qwen2vl"}

\* frame sizes (width, height) the interpreter is run against
ParseSizes == {<<1000, 2000>>, <<1920, 1080>>, <<4000, 10>>}

\* the turns the interpreter is run on: one call clause, or text without "Action:",
\* or a clause that is no call expression
ParseTurns ==
    {Turn(TRUE, <<Call(f, a)>>) : f \in Functions, a \in ArgLists}
        \cup {Turn(FALSE, <<>>),
              Turn(TRUE, <<[form |-> "garbage", function |-> "", args |-> <<>>]>>),
              Turn(TRUE, <<[form |-> "type_noquote", function |-> "type", args |-> <<>>]>>)}

InitParse ==
    /\ HooksIdle
    /\ LoopInit
    /\ pstage = "input"
    /\ pin \in {[turn |-> t, size |-> sz, model_type |-> m] :
                    t \in ParseTurns, sz \in ParseSizes, m \in ModelTypes}
    /\ pparsed = NoParse
    /\ pcode = NoCode
    /\ ResizeIdle
    /\ ShotIdle
    /\ LimiterIdle
    /\ ast_has_Str \in BOOLEAN
    /\ ExactFloats

\* actions = parse_action_to_structure_output(text, height, width)
ParseStep ==
    /\ pstage = "input"
    /\ pparsed' = parse_action_to_structure_output(pin.turn, pin.size[2], pin.size[1],
                                                   pin.model_type)
    /\ pstage' = "parsed"
    /\ UNCHANGED <<pin, pcode, pc, outcome, loopVars, channelVars, traceVars, modelVars,
                   passVars, lastCall, finalised, unitVars, frameVars, turnVars,
                   exitVars>>

\* code = parsing_response_to_pyautogui_code(actions[0], height, width)
SynthStep ==
    /\ pstage = "parsed"
    /\ pparsed.exc = "none"
    /\ pcode' = parsing_response_to_pyautogui_code(pparsed.actions[1], pin.size[2], pin.size[1])
    /\ pstage' = "synth"
    /\ UNCHANGED <<pin, pparsed, pc, outcome, loopVars, channelVars, traceVars, modelVars,
                   passVars, lastCall, finalised, unitVars, frameVars, turnVars,
                   exitVars>>

NextParse == ParseStep \/ SynthStep

SpecParse == InitParse /\ [][NextParse]_vars

\* the clause the interpreter was given calls `f`
Calls(f) ==
    /\ Len(pin.turn.clauses) >= 1
    /\ pin.turn.clauses[1].form = "call"
    /\ pin.turn.clauses[1].function = f

\* the turn was parsed into an Action
Parsed == pstage \in {"parsed", "synth"} /\ pparsed.exc = "none"

\* C10 as stated: the Action parsed from a click clause has the action_type
\* left_single.
C10_ClickBecomesLeftSingle ==
    (Parsed /\ Calls("click")) => pparsed.actions[1].action_type = "left_single"

\* C10 amended: the Action parsed from a click clause keeps the action_type click;
\* the synthesizer gives it the command it gives the same Action typed left_single.
C10_ClickKeptAndSynonym ==
    /\ (Parsed /\ Calls("click")) => pparsed.actions[1].action_type = "click"
    /\ (pstage = "synth" /\ Calls("click")) =>
          pcode = parsing_response_to_pyautogui_code(
                     [pparsed.actions[1] EXCEPT !.action_type = "left_single"],
                     pin.size[2], pin.size[1])

C10_Witness ==
    /\ pstage = "synth" /\ Calls("click")
    /\ pcode.exc = "none" /\ Len(pcode.cmds) = 1 /\ pcode.cmds[1].op = "click_left"

\* ------------------------------------------------------------------------
\* Normalizer and Canonicalizer
\* ------------------------------------------------------------------------

\* the clause the interpreter was given, and the Action it made of it
FirstClause == pin.turn.clauses[1]
FirstAction == pparsed.actions[1]

\* the frame the interpreter was given can be resized
Resizable == Divisors(pin.model_type, pin.size[2], pin.size[1]).exc = "none"

\* the start_box / end_box inputs of an Action that hold a list of floats
Boxes(act) ==
    {n \in DOMAIN act.action_inputs :
        HasBox(n) /\ act.action_inputs[n].kind = "floats"}

\* C11: every component of every start_box / end_box stored in a parsed Action
\* lies within [0, 1], under either resize policy.
C11_BoxesWithinUnit ==
    Parsed =>
        \A n \in Boxes(FirstAction) :
            LET b == FirstAction.action_inputs[n].box
            IN  \A i \in 1..Len(b) : b[i][1] >= 0 /\ b[i][1] <= b[i][2]

\* C12: under the smart policy a coordinate of exactly 2 numbers (x, y) is stored
\* as the 4 components [x / resized width, y / resized height, x / resized width,
\* y / resized height].
C12_PointExpanded ==
    (Parsed /\ pin.model_type = "qwen25vl") =>
        \A i \in 1..Len(FirstClause.args) :
            LET a  == FirstClause.args[i]
                sr == smart_resize(pin.size[2], pin.size[1])
                nx == <<a.nums[1], sr.w>>
                ny == <<a.nums[2], sr.h>>
            IN  (a.kind = "box" /\ Len(a.nums) = 2 /\ HasBox(RenamePoint(a.name))) =>
                    FirstAction.action_inputs[RenamePoint(a.name)]
                        = BoxVal(<<nx, ny, nx, ny>>)

C12_Witness ==
    /\ Parsed /\ pin.model_type = "qwen25vl" /\ pin.size = <<1920, 1080>>
    /\ FirstClause.args = <<Arg("point", "box", "", <<500, 600>>)>>
    /\ FirstAction.action_inputs["start_box"].box
         = <<<<500, 1932>>, <<600, 1092>>, <<500, 1932>>, <<600, 1092>>>>

\* the keyword names of a key action, in the order the parser stores them
KeyNames == <<"key", "hotkey", "press">>

\* a key Action written back as the clause that spells it: one keyword argument
\* per input
AsClause(act) ==
    LET names == SelectSeq(KeyNames, LAMBDA n : n \in DOMAIN act.action_inputs)
    IN  Call(act.action_type,
             [i \in 1..Len(names) |->
                 Arg(names[i], "str", act.action_inputs[names[i]].s, <<>>)])

\* the action-type, key-name and parameter rules applied to an Action
Canonicalize(act) ==
    MakeAction(AsClause(act),
               Divisors(pin.model_type, pin.size[2], pin.size[1])).action

\* the parsed Action is a canonical key action
IsKeyAction ==
    /\ Parsed
    /\ FirstAction.action_type \in {"keydown", "keyup", "hotkey"}
    /\ DOMAIN FirstAction.action_inputs # {}
    /\ \A n \in DOMAIN FirstAction.action_inputs :
          /\ n \in {"key", "hotkey", "press"}
          /\ FirstAction.action_inputs[n].kind = "str"

\* C13: canonicalizing an already-canonical key Action returns the same
\* action_type and the same inputs, and press and keydown canonicalize to the
\* same action_type.
C13_CanonicalizeIdempotent ==
    /\ IsKeyAction => Canonicalize(FirstAction) = FirstAction
    /\ NormalizeActionType("press") = NormalizeActionType("keydown")

\* the parsed Action holds a start_box and an end_box
HasBothBoxes == Boxes(FirstAction) = {"start_box", "end_box"}

\* C14: the commands synthesized for a drag / select with a start_box and an
\* end_box are a move-to the midpoint of the start box and a drag-to the midpoint
\* of the end box, scaled by the frame's width and height and rounded to 3
\* decimals.
C14_DragMidpoints ==
    (pstage = "synth" /\ (Calls("drag") \/ Calls("select")) /\ HasBothBoxes) =>
        LET sb == FirstAction.action_inputs["start_box"].box
            eb == FirstAction.action_inputs["end_box"].box
        IN  /\ pcode.exc = "none"
            /\ pcode.cmds =
                 <<Cmd("moveTo", <<>>, "", <<MidPoint(sb[1], sb[3], pin.size[1]),
                                             MidPoint(sb[2], sb[4], pin.size[2])>>),
                   Cmd("dragTo", <<>>, "", <<MidPoint(eb[1], eb[3], pin.size[1]),
                                             MidPoint(eb[2], eb[4], pin.size[2])>>)>>

\* the interpreter has parsed a call clause with a non-literal keyword value
NonLiteralParsed ==
    /\ pstage \in {"parsed", "synth"}
    /\ Resizable
    /\ Len(pin.turn.clauses) >= 1
    /\ FirstClause.form = "call"
    /\ NonLiteral(FirstClause)

\* C15: a clause with a non-literal keyword value is rejected by the
\* call-expression parser with the parse error that carries the clause, and no
\* CallExpression or Action is produced.
C15_NonLiteralIsParseError ==
    NonLiteralParsed =>
        /\ ~parse_action(FirstClause).ok
        /\ pparsed.exc = "ValueError" /\ pparsed.carries = 1
        /\ pparsed.actions = <<>>

\* ------------------------------------------------------------------------
\* smart_resize on its own
\* ------------------------------------------------------------------------

\* the small heights and widths are 1..MaxSmallSide
MaxSmallSide == 12

\* sides at which the three branches, the ratio bound and the integer quotients
\* are met
LargeSides == {28, 100, 169, 199, 200, 201, 280, 1000, 1080, 1920, 2000, 3584, 4000,
               5000, 8000, 10000, 100000}

Sides == (1..MaxSmallSide) \cup LargeSides

InitResize ==
    /\ LoopInit
    /\ HooksIdle
    /\ ParseIdle
    /\ rs_stage = "input"
    /\ rs_in \in {[height |-> h, width |-> w] : h \in Sides, w \in Sides}
    /\ rs_out = NoResize
    /\ ShotIdle
    /\ LimiterIdle
    /\ ast_has_Str \in BOOLEAN
    /\ fp_err \in {-1, 0, 1} \X {-1, 0, 1}

\* smart_resize(height, width)
ResizeStep ==
    /\ rs_stage = "input"
    /\ rs_out' = smart_resize(rs_in.height, rs_in.width)
    /\ rs_stage' = "done"
    /\ UNCHANGED <<rs_in, runVars, hookVars, parseVars, envVars, shotVars, limiterVars>>

NextResize == ResizeStep

SpecResize == InitResize /\ [][NextResize]_vars

\* C16: for heights and widths of aspect ratio at most 200 smart_resize returns
\* two positive multiples of the factor whose product lies within
\* [MIN_PIXELS, MAX_PIXELS]; for a larger aspect ratio it raises.
C16_ResizedWithinBand ==
    rs_stage = "done" =>
        IF Max(rs_in.height, rs_in.width) > MAX_RATIO * Min(rs_in.height, rs_in.width)
        THEN rs_out.exc = "ValueError"
        ELSE /\ rs_out.exc = "none"
             /\ rs_out.h > 0 /\ rs_out.w > 0
             /\ rs_out.h % IMAGE_FACTOR = 0 /\ rs_out.w % IMAGE_FACTOR = 0
             /\ rs_out.h * rs_out.w >= MIN_PIXELS
             /\ rs_out.h * rs_out.w <= MAX_PIXELS

\* a 5000 x 5000 frame is scaled down, the float quotient falls below 128
C16_Witness ==
    /\ rs_stage = "done"
    /\ rs_in = [height |-> 5000, width |-> 5000]
    /\ rs_out = [exc |-> "none", h |-> 3556, w |-> 3556]

\* ------------------------------------------------------------------------
\* request_remote_screenshot on its own, and the action exchange (send_json,
\* receive_json) standalone_uitars makes on the same connection, against a
\* client that answers, answers late or with text, stays silent or disconnects
\* ------------------------------------------------------------------------

\* calls of request_remote_screenshot on the connection
MaxShots == 2

\* messages of the client the connection holds unread
MaxInbox == 2

\* action exchanges on the connection
MaxDispatches == 1

\* screenshots the client can send
Frames == {"jpeg1", "jpeg2"}

\* what the client can send: image bytes, or a text message; `re` is the number
\* of the request the message answers (0: it answers none)
ClientMessages ==
    {[kind |-> "bytes", data |-> f, re |-> 0] : f \in Frames}
        \cup {[kind |-> "text", data |-> "x", re |-> 0]}

\* {"type": "screenshot", "content": ""}
ScreenshotRequest == [type |-> "screenshot", content |-> ""]

\* {"type": "action", "content": action}
ActionRequest == [type |-> "action", content |-> "action"]

\* what send_json raises on a connection that is closed
SendFailures == {"RuntimeError", "WebSocketDisconnect"}

\* asyncio.wait_for(websocket.receive_bytes(), timeout): the next unread message
\* if it holds bytes, KeyError if it holds text, WebSocketDisconnect on a closed
\* connection, TimeoutError when nothing arrives in time
receive_bytes(inbox, open) ==
    IF inbox # <<>>
    THEN IF Head(inbox).kind = "bytes"
         THEN [exc |-> "none", data |-> Head(inbox).data]
         ELSE [exc |-> "KeyError", data |-> ""]
    ELSE IF ~open THEN [exc |-> "WebSocketDisconnect", data |-> ""]
    ELSE [exc |-> "TimeoutError", data |-> ""]

\* websocket.receive_json(): the next unread message if it holds text, KeyError
\* if it holds bytes, WebSocketDisconnect on a closed connection (nothing bounds
\* the wait: with no message on an open connection the call does not return)
receive_json(inbox) ==
    IF inbox # <<>>
    THEN IF Head(inbox).kind = "text"
         THEN [exc |-> "none", data |-> Head(inbox).data]
         ELSE [exc |-> "KeyError", data |-> ""]
    ELSE [exc |-> "WebSocketDisconnect", data |-> ""]

\* the except clauses with the timeout left to the generic one
ReceiveHandler_TimeoutAsOther(raised) ==
    CASE raised = "WebSocketDisconnect" -> "WebSocketDisconnect"
      [] OTHER                          -> "RuntimeError"

\* the except clauses of request_remote_screenshot, in their order
ReceiveHandler(raised) ==
    CASE raised = "WebSocketDisconnect" -> "WebSocketDisconnect"
      [] raised = "TimeoutError"        -> "TimeoutError"
      [] OTHER                          -> "RuntimeError"

InitShot ==
    /\ LoopInit
    /\ HooksIdle
    /\ ParseIdle
    /\ ResizeIdle
    /\ LimiterIdle
    /\ ws_open = TRUE
    /\ ws_inbox = <<>>
    /\ ws_sent = <<>>
    /\ shot = NoShot
    /\ shots = 0
    /\ disp = NoDispatch
    /\ dispatches = 0
    /\ ws_replies = 0
    /\ ast_has_Str \in BOOLEAN
    /\ ExactFloats

\* await websocket.send_json({"type": "screenshot", "content": ""}), outside the
\* try block: its error leaves the function as it is
ShotRequest ==
    /\ shot.stage \in {"idle", "ended"}
    /\ disp.stage # "waiting"
    /\ shots < MaxShots
    /\ shots' = shots + 1
    /\ IF ws_open
       THEN /\ ws_sent' = Append(ws_sent, ScreenshotRequest)
            /\ shot' = [NoShot EXCEPT !.stage = "waiting", !.before = Len(ws_sent),
                                      !.sent = 1]
       ELSE /\ \E e \in SendFailures :
                 shot' = [NoShot EXCEPT !.stage = "ended", !.before = Len(ws_sent),
                                        !.outcome = e]
            /\ UNCHANGED ws_sent
    /\ UNCHANGED <<ws_open, ws_inbox, disp, dispatches, ws_replies, runVars, hookVars, parseVars,
                   envVars, resizeVars, limiterVars>>

\* data = await asyncio.wait_for(websocket.receive_bytes(), timeout); return data,
\* or one of the except clauses
ShotReceive ==
    /\ shot.stage = "waiting"
    /\ LET r == receive_bytes(ws_inbox, ws_open)
       IN  /\ shot' = [shot EXCEPT
                         !.stage = "ended",
                         !.raised = r.exc,
                         !.outcome = IF r.exc = "none" THEN "return"
                                     ELSE ReceiveHandler(r.exc),
                         !.got = IF ws_inbox # <<>> THEN Head(ws_inbox) ELSE NoMessage,
                         !.data = r.data]
           /\ ws_inbox' = IF ws_inbox # <<>> THEN Tail(ws_inbox) ELSE ws_inbox
    /\ UNCHANGED <<ws_open, ws_sent, shots, disp, dispatches, ws_replies, runVars, hookVars,
                   parseVars, envVars, resizeVars, limiterVars>>

\* standalone_uitars: await websocket.send_json({"type": "action", "content": action})
DispatchSend ==
    /\ shot.stage \in {"idle", "ended"}
    /\ disp.stage \in {"idle", "ended"}
    /\ dispatches < MaxDispatches
    /\ dispatches' = dispatches + 1
    /\ IF ws_open
       THEN /\ ws_sent' = Append(ws_sent, ActionRequest)
            /\ disp' = [NoDispatch EXCEPT !.stage = "waiting", !.before = Len(ws_sent)]
       ELSE /\ \E e \in SendFailures :
                 disp' = [NoDispatch EXCEPT !.stage = "ended", !.before = Len(ws_sent),
                                            !.outcome = e]
            /\ UNCHANGED ws_sent
    /\ UNCHANGED <<ws_open, ws_inbox, shot, shots, ws_replies, runVars, hookVars, parseVars,
                   envVars, resizeVars, limiterVars>>

\* standalone_uitars: result = await websocket.receive_json()
DispatchReceive ==
    /\ disp.stage = "waiting"
    /\ ws_inbox # <<>> \/ ~ws_open
    /\ LET r == receive_json(ws_inbox)
       IN  /\ disp' = [disp EXCEPT
                         !.stage = "ended",
                         !.outcome = IF r.exc = "none" THEN "result" ELSE r.exc,
                         !.got = IF ws_inbox # <<>> THEN Head(ws_inbox) ELSE NoMessage]
           /\ ws_inbox' = IF ws_inbox # <<>> THEN Tail(ws_inbox) ELSE ws_inbox
    /\ UNCHANGED <<ws_open, ws_sent, shot, shots, dispatches, ws_replies, runVars, hookVars,
                   parseVars, envVars, resizeVars, limiterVars>>

\* the client answers the oldest request it has not answered yet, in time or late,
\* with a message of either kind; or it sends a message nobody asked for
ClientSends ==
    /\ ws_open
    /\ Len(ws_inbox) < MaxInbox
    /\ \E m \in ClientMessages :
         \/ /\ ws_replies < Len(ws_sent)
            /\ ws_inbox' = Append(ws_inbox, [m EXCEPT !.re = ws_replies + 1])
            /\ ws_replies' = ws_replies + 1
         \/ /\ ws_inbox' = Append(ws_inbox, m)
            /\ UNCHANGED ws_replies
    /\ UNCHANGED <<ws_open, ws_sent, shot, shots, disp, dispatches, runVars, hookVars, parseVars,
                   envVars, resizeVars, limiterVars>>

\* the client closes the connection
ClientDisconnects ==
    /\ ws_open
    /\ ws_open' = FALSE
    /\ UNCHANGED <<ws_inbox, ws_sent, shot, shots, disp, dispatches, ws_replies, runVars, hookVars,
                   parseVars, envVars, resizeVars, limiterVars>>

NextShot ==
    \/ ShotRequest
    \/ ShotReceive
    \/ DispatchSend
    \/ DispatchReceive
    \/ ClientSends
    \/ ClientDisconnects

SpecShot == InitShot /\ [][NextShot]_vars

\* the four ways request_remote_screenshot ends after its request
FourOutcomes ==
    /\ shot.outcome \in {"return", "TimeoutError", "WebSocketDisconnect", "RuntimeError"}
    /\ shot.outcome = "return" <=> shot.got.kind = "bytes"
    /\ shot.outcome = "return" => shot.data = shot.got.data
    /\ shot.outcome = "TimeoutError" <=> shot.raised = "TimeoutError"
    /\ shot.outcome = "WebSocketDisconnect" <=> shot.raised = "WebSocketDisconnect"
    /\ shot.outcome = "RuntimeError" <=>
          shot.raised \notin {"none", "TimeoutError", "WebSocketDisconnect"}

\* the call sent exactly one request, the screenshot request
OneRequest ==
    /\ shot.sent = 1
    /\ Len(ws_sent) >= shot.before + 1
    /\ ws_sent[shot.before + 1] = ScreenshotRequest

Tools == {"a", "b"}

\* the largest limit configured
MaxLimit == 2

\* callbacks of the limiter run
MaxCallbacks == 5

\* invocations of the agent (Agent.__call__ invokes twice)
MaxInvocations == 2

\* tool calls running at once
MaxInFlight == 2

\* "Tool '...' has been invoked too many and is now being throttled. ..."
ThrottleMessage == "throttled"

\* the exception of an AfterToolCallEvent
Exceptions == {"none", "ValidationError", "TypeError", "RuntimeError"}

\* an AfterToolCallEvent: its exception, the status of its result ("none": no
\* result) and which of the words TypeError / ValidationError the text of the
\* first content item contains ("plain": neither).  A call that returned has a
\* result of either status, a call that raised has an error result.
ToolEvents ==
    {[exception |-> "none", status |-> st, text |-> tx] :
        st \in {"success", "error"}, tx \in {"plain", "TypeError", "ValidationError"}}
      \cup {[exception |-> e, status |-> "error", text |-> tx] :
               e \in Exceptions \ {"none"},
               tx \in {"plain", "TypeError", "ValidationError"}}

\* the events the unit tests pass: an exception and no result
TestEvents ==
    {[exception |-> e, status |-> "none", text |-> "plain"] : e \in Exceptions \ {"none"}}

\* the event that follows a cancelled call: an error result with the message
CancelledEvent == [exception |-> "none", status |-> "error", text |-> "plain"]

\* counts.get(tool_name, 0)
Count(counts, t) == IF t \in DOMAIN counts THEN counts[t] ELSE 0

\* the call is throttled from the limit on
Throttled_AtLimit(limits, t, tool_count) ==
    t \in DOMAIN limits /\ limits[t] # 0 /\ tool_count >= limits[t]

\* max_tool_count and tool_count > max_tool_count
Throttled(limits, t, tool_count) ==
    t \in DOMAIN limits /\ limits[t] # 0 /\ tool_count > limits[t]

\* the refund on the exception alone
Refunds_ExceptionOnly(ev) == ev.exception \in {"ValidationError", "TypeError"}

\* the condition of intercept_response
Refunds(ev) ==
    \/ ev.exception \in {"ValidationError", "TypeError"}
    \/ ev.status = "error" /\ ev.text \in {"TypeError", "ValidationError"}

NoCounts == [t \in Tools |-> 0]

InitLimiter ==
    /\ LoopInit
    /\ HooksIdle
    /\ ParseIdle
    /\ ResizeIdle
    /\ ShotIdle
    /\ max_tool_counts \in {[t \in {"a"} |-> L] : L \in 0..MaxLimit}
    /\ tool_counts = <<>>
    /\ in_flight = <<>>
    /\ lim_last = NoCallback
    /\ lim_calls = NoCounts
    /\ lim_refunded = FALSE
    /\ lim_passed = NoCounts
    /\ lim_stray = FALSE
    /\ lim_phase = "idle"
    /\ lim_steps = [callbacks |-> 0, invocations |-> 0]
    /\ ast_has_Str \in BOOLEAN
    /\ ExactFloats

\* strands_agent.invoke_async(...): an invocation of the agent begins
BeginInvocation ==
    /\ lim_phase = "idle"
    /\ lim_steps.invocations < MaxInvocations
    /\ lim_steps' = [lim_steps EXCEPT !.invocations = @ + 1]
    /\ lim_phase' = "begun"
    /\ lim_passed' = NoCounts
    /\ lim_stray' = FALSE
    /\ UNCHANGED <<max_tool_counts, tool_counts, in_flight, lim_last, lim_calls,
                   lim_refunded, runVars, hookVars, parseVars, envVars, resizeVars, shotVars>>

\* the invocation returns: the model asked for no further tool
EndInvocation ==
    /\ lim_phase = "running"
    /\ in_flight = <<>>
    /\ lim_phase' = "idle"
    /\ UNCHANGED <<max_tool_counts, tool_counts, in_flight, lim_last, lim_calls,
                   lim_refunded, lim_passed, lim_stray, lim_steps, runVars, hookVars, parseVars,
                   envVars, resizeVars, shotVars>>

\* BeforeModelCallEvent: reset_counts
reset_counts ==
    /\ lim_phase \in {"begun", "running"}
    /\ in_flight = <<>>
    /\ lim_steps.callbacks < MaxCallbacks
    /\ lim_steps' = [lim_steps EXCEPT !.callbacks = @ + 1]
    /\ tool_counts' = <<>>
    /\ lim_phase' = "running"
    /\ lim_calls' = NoCounts
    /\ lim_refunded' = FALSE
    /\ lim_last' = [NoCallback EXCEPT !.hook = "reset_counts", !.before = tool_counts]
    /\ UNCHANGED <<max_tool_counts, in_flight, lim_passed, lim_stray, runVars, hookVars, parseVars,
                   envVars, resizeVars, shotVars>>

\* BeforeToolCallEvent: intercept_tool
intercept_tool ==
    /\ lim_phase = "running"
    /\ Len(in_flight) < MaxInFlight
    /\ lim_steps.callbacks < MaxCallbacks
    /\ lim_steps' = [lim_steps EXCEPT !.callbacks = @ + 1]
    /\ \E tool_name \in Tools :
         LET tool_count == Count(tool_counts, tool_name) + 1
             cancel_tool == IF Throttled(max_tool_counts, tool_name, tool_count)
                            THEN ThrottleMessage ELSE ""
         IN  /\ tool_counts' = Put(tool_counts, tool_name, tool_count)
             /\ in_flight' = Append(in_flight,
                                    [tool |-> tool_name, cancel_tool |-> cancel_tool])
             /\ lim_calls' = [lim_calls EXCEPT ![tool_name] = @ + 1]
             /\ lim_passed' = IF cancel_tool = ""
                              THEN [lim_passed EXCEPT ![tool_name] = @ + 1]
                              ELSE lim_passed
             /\ lim_last' = [NoCallback EXCEPT !.hook = "intercept_tool",
                                               !.tool = tool_name,
                                               !.cancel_tool = cancel_tool,
                                               !.nth = lim_calls[tool_name] + 1,
                                               !.before = tool_counts]
    /\ UNCHANGED <<max_tool_counts, lim_refunded, lim_stray, lim_phase, runVars, hookVars,
                   parseVars, envVars, resizeVars, shotVars>>

\* the body of intercept_response for a call of tool_name that ended with ev
Respond(tool_name, ev) ==
    /\ lim_steps.callbacks < MaxCallbacks
    /\ lim_steps' = [lim_steps EXCEPT !.callbacks = @ + 1]
    /\ tool_counts' = IF Refunds(ev)
                      THEN Put(tool_counts, tool_name,
                               Max(0, Count(tool_counts, tool_name) - 1))
                      ELSE tool_counts
    /\ lim_refunded' = (lim_refunded \/ Refunds(ev))
    /\ lim_last' = [NoCallback EXCEPT !.hook = "intercept_response",
                                      !.tool = tool_name,
                                      !.before = tool_counts,
                                      !.event = ev]

\* AfterToolCallEvent of an intercepted call: intercept_response
intercept_response ==
    /\ \E i \in 1..Len(in_flight) :
         \E ev \in (IF in_flight[i].cancel_tool # "" THEN {CancelledEvent} ELSE ToolEvents) :
            /\ Respond(in_flight[i].tool, ev)
            /\ in_flight' = SubSeq(in_flight, 1, i - 1)
                              \o SubSeq(in_flight, i + 1, Len(in_flight))
            /\ lim_passed' = IF Refunds(ev) /\ in_flight[i].cancel_tool = ""
                             THEN [lim_passed EXCEPT ![in_flight[i].tool] = @ - 1]
                             ELSE lim_passed
    /\ UNCHANGED <<max_tool_counts, lim_calls, lim_stray, lim_phase, runVars, hookVars, parseVars,
                   envVars, resizeVars, shotVars>>

\* intercept_response called for a tool of which no call is running, as the
\* unit tests call it
StrayResponse ==
    /\ \E tool_name \in Tools : \E ev \in TestEvents :
         /\ \A i \in 1..Len(in_flight) : in_flight[i].tool # tool_name
         /\ Respond(tool_name, ev)
    /\ lim_stray' = TRUE
    /\ UNCHANGED <<max_tool_counts, in_flight, lim_calls, lim_passed, lim_phase, runVars, hookVars,
                   parseVars, envVars, resizeVars, shotVars>>

NextLimiter ==
    \/ BeginInvocation
    \/ EndInvocation
    \/ reset_counts
    \/ intercept_tool
    \/ intercept_response
    \/ StrayResponse

SpecLimiter == InitLimiter /\ [][NextLimiter]_vars

\* C18: with no decrement since the last reset, the call of a tool with limit
\* L >= 1 is cancelled with the throttling message exactly when it is a later
\* call than the L-th since the reset; the call of a tool without a limit is
\* never cancelled.
C18_ThrottleAfterLimit ==
    (lim_last.hook = "intercept_tool" /\ ~lim_refunded) =>
        /\ (lim_last.tool \in DOMAIN max_tool_counts
              /\ max_tool_counts[lim_last.tool] >= 1) =>
              /\ lim_last.nth <= max_tool_counts[lim_last.tool]
                    => lim_last.cancel_tool = ""
              /\ lim_last.nth > max_tool_counts[lim_last.tool]
                    => lim_last.cancel_tool = ThrottleMessage
        /\ lim_last.tool \notin DOMAIN max_tool_counts => lim_last.cancel_tool = ""

C18_Witness ==
    /\ lim_last.hook = "intercept_tool" /\ ~lim_refunded
    /\ lim_last.tool = "a" /\ max_tool_counts["a"] = 1
    /\ lim_last.nth = 2 /\ lim_last.cancel_tool = ThrottleMessage

\* C19: within one agent invocation the calls of a tool with limit L >= 1 that
\* were let through and not refunded never number more than L.
C19_AtMostLimitPerInvocation ==
    ~lim_stray =>
        \A t \in DOMAIN max_tool_counts :
            max_tool_counts[t] >= 1 => lim_passed[t] <= max_tool_counts[t]

\* the counts after the last intercept_response are those before it, with the
\* called tool's count lowered by one but not below zero
LoweredByOne ==
    /\ Count(tool_counts, lim_last.tool) = Max(0, Count(lim_last.before, lim_last.tool) - 1)
    /\ \A u \in Tools \ {lim_last.tool} : Count(tool_counts, u) = Count(lim_last.before, u)

\* the counts after the last intercept_response are those before it
CountsUnchanged ==
    \A u \in Tools : Count(tool_counts, u) = Count(lim_last.before, u)

NoNegativeCount == \A t \in DOMAIN tool_counts : tool_counts[t] >= 0

\* the call ended with a ValidationError or a TypeError: as the exception of the
\* event, or named by the error result of an event without exception
EndedWithValidationOrTypeError(ev) ==
    \/ ev.exception \in {"ValidationError", "TypeError"}
    \/ /\ ev.exception = "none"
       /\ ev.status = "error"
       /\ ev.text \in {"TypeError", "ValidationError"}

MaxHooks == 3

\* messages logged
MaxMessages == 3

\* an AgentTrace row not yet added
NoTrace == [exists |-> FALSE, messages |-> <<>>, finished |-> FALSE]

\* AgentLoggingHook.__init__: the attributes it assigns (messages is not one)
AgentLoggingHook(parent, is_gui_agent, invoker) ==
    [parent_trace_id |-> parent, is_gui_agent |-> is_gui_agent, created |-> FALSE,
     invoker |-> invoker]

\* the agent running: the innermost call
Running == call_stack[Len(call_stack)]

\* Agent.get_logging_hooks(invocation_state): the hook takes the
\* "parent_trace_id" of the invocation_state, here `state_parent`, as its parent
\* and the key is set to the id of the new hook
get_logging_hooks(state_parent, invoker) ==
    /\ hooks' = Append(hooks, AgentLoggingHook(state_parent, FALSE, invoker))
    /\ agent_traces' = Append(agent_traces, NoTrace)
    /\ parent_trace_id' = Len(hooks) + 1

\* the largest position of a message of the list that holds a pending image, 0
\* if there is none: the first hit of `for msg in reversed(self.messages)`
LastPending(msgs) ==
    LET P == {i \in 1..Len(msgs) : msgs[i].image = "pending"}
    IN  IF P = {} THEN 0 ELSE CHOOSE i \in P : \A j \in P : j <= i

\* update_trace() as log_message and register_gui_trace call it on hook h once
\* the list is msgs: the row takes the list, or RuntimeError if there is no row
Persist(h, msgs, op) ==
    LET r == update_trace({}, agent_traces[h].exists)
    IN  /\ agent_traces' = IF r.exc = "none"
                           THEN [agent_traces EXCEPT ![h].messages = msgs]
                           ELSE agent_traces
        /\ hook_last' = [op |-> op, hook |-> h, exc |-> r.exc]

InitHooks ==
    /\ LoopInit
    /\ ParseIdle
    /\ ResizeIdle
    /\ ShotIdle
    /\ LimiterIdle
    /\ HooksIdle
    /\ ast_has_Str \in BOOLEAN
    /\ ExactFloats

\* the router: invocation_state = {...}; agent(invocation_state=invocation_state,
\* **data), and Agent.__call__ builds its hooks
CallRoot ==
    /\ call_stack = <<>>
    /\ Len(hooks) < MaxHooks
    /\ get_logging_hooks(0, 0)
    /\ call_stack' = <<Len(hooks) + 1>>
    /\ UNCHANGED <<messages, sub_agent_traces, hook_last, runVars, parseVars, envVars,
                   resizeVars, shotVars, limiterVars>>

\* agent_tool_function: the running agent uses a database Agent as a tool,
\* self(invocation_state=tool_context.invocation_state, **input)
CallSubAgent ==
    /\ call_stack # <<>>
    /\ ~hooks[Running].is_gui_agent
    /\ hooks[Running].created
    /\ Len(hooks) < MaxHooks
    /\ get_logging_hooks(parent_trace_id, Running)
    /\ call_stack' = Append(call_stack, Len(hooks) + 1)
    /\ UNCHANGED <<messages, sub_agent_traces, hook_last, runVars, parseVars, envVars,
                   resizeVars, shotVars, limiterVars>>

\* standalone_uitars as a tool of the running agent: its hook takes
\* tool_context.invocation_state.get("parent_trace_id") and the key stays
CallUitars ==
    /\ call_stack # <<>>
    /\ ~hooks[Running].is_gui_agent
    /\ hooks[Running].created
    /\ Len(hooks) < MaxHooks
    /\ hooks' = Append(hooks, AgentLoggingHook(parent_trace_id, TRUE, Running))
    /\ agent_traces' = Append(agent_traces, NoTrace)
    /\ call_stack' = Append(call_stack, Len(hooks) + 1)
    /\ UNCHANGED <<messages, parent_trace_id, sub_agent_traces, hook_last, runVars,
                   parseVars, envVars, resizeVars, shotVars, limiterVars>>

\* AgentLoggingHook.log_start on the BeforeModelCallEvent of the running agent
log_start ==
    /\ call_stack # <<>>
    /\ LET h == Running
       IN  IF hooks[h].created
           THEN UNCHANGED <<hooks, agent_traces, sub_agent_traces>>
           ELSE /\ agent_traces' = [agent_traces EXCEPT ![h].exists = TRUE]
                /\ sub_agent_traces' =
                       IF hooks[h].parent_trace_id # 0
                       THEN sub_agent_traces \cup {<<hooks[h].parent_trace_id, h>>}
                       ELSE sub_agent_traces
                /\ hooks' = [hooks EXCEPT ![h].created = TRUE]
    /\ hook_last' = [op |-> "log_start", hook |-> Running, exc |-> "none"]
    /\ UNCHANGED <<messages, parent_trace_id, call_stack, runVars, parseVars, envVars,
                   resizeVars, shotVars, limiterVars>>

\* AgentLoggingHook.log_message on a MessageAddedEvent of the running agent: an
\* image part is replaced by the pending id, the message is appended to
\* self.messages and the trace updated
log_message ==
    /\ call_stack # <<>>
    /\ Len(messages) < MaxMessages
    /\ \E has_image \in BOOLEAN :
         LET h == Running
             message == [by |-> h,
                         image |-> IF has_image THEN "pending" ELSE "none",
                         filled_by |-> 0]
         IN  /\ messages' = Append(messages, message)
             /\ Persist(h, messages', "log_message")
    /\ UNCHANGED <<hooks, parent_trace_id, sub_agent_traces, call_stack, runVars,
                   parseVars, envVars, resizeVars, shotVars, limiterVars>>

\* AgentLoggingHook.register_gui_trace, called by standalone_uitars on its hook:
\* the GUITrace row, then the last pending image of self.messages gets the
\* screenshot key and the trace is updated
register_gui_trace ==
    /\ call_stack # <<>>
    /\ hooks[Running].is_gui_agent
    /\ LET h == Running
           i == LastPending(messages)
       IN  IF i = 0
           THEN /\ hook_last' = [op |-> "register_gui_trace", hook |-> h, exc |-> "none"]
                /\ UNCHANGED <<messages, agent_traces>>
           ELSE /\ messages' = [messages EXCEPT ![i].image = "key", ![i].filled_by = h]
                /\ Persist(h, messages', "register_gui_trace")
    /\ UNCHANGED <<hooks, parent_trace_id, sub_agent_traces, call_stack, runVars,
                   parseVars, envVars, resizeVars, shotVars, limiterVars>>

\* the running agent ends: the finally block of Agent.__call__ and of
\* standalone_uitars, update_trace(finished=True, cost=cost); the
\* invocation_state keeps its parent_trace_id
ReturnAgent ==
    /\ call_stack # <<>>
    /\ LET h == Running
           r == update_trace({"finished", "cost"}, agent_traces[h].exists)
       IN  /\ agent_traces' = IF r.exc = "none"
                              THEN [agent_traces EXCEPT ![h].messages = messages,
                                                        ![h].finished = r.finished]
                              ELSE agent_traces
           /\ hook_last' = [op |-> "update_trace", hook |-> h, exc |-> r.exc]
    /\ call_stack' = SubSeq(call_stack, 1, Len(call_stack) - 1)
    /\ UNCHANGED <<messages, hooks, parent_trace_id, sub_agent_traces, runVars,
                   parseVars, envVars, resizeVars, shotVars, limiterVars>>

NextHooks ==
    \/ CallRoot
    \/ CallSubAgent
    \/ CallUitars
    \/ log_start
    \/ log_message
    \/ register_gui_trace
    \/ ReturnAgent

SpecHooks == InitHooks /\ [][NextHooks]_vars

\* C23: the messages persisted in the trace of a hook were all logged through
\* that hook, none through another AgentLoggingHook, and an image id filled in
\* by register_gui_trace is in a message of the hook's own agent.
C23_HooksShareNothing ==
    /\ \A t \in 1..Len(agent_traces) :
           \A i \in 1..Len(agent_traces[t].messages) :
               agent_traces[t].messages[i].by = t
    /\ \A i \in 1..Len(messages) :
           messages[i].filled_by # 0 => messages[i].filled_by = messages[i].by

\* C25: every SubAgentTrace links the child to the trace of the agent that
\* invoked it, and every sub-agent whose trace was started has that link.
C25_TraceLineage ==
    /\ \A l \in sub_agent_traces : l[1] = hooks[l[2]].invoker
    /\ \A h \in 1..Len(hooks) :
           (hooks[h].created /\ hooks[h].invoker # 0) =>
               <<hooks[h].invoker, h>> \in sub_agent_traces

\* ------------------------------------------------------------------------
\* Further properties of the execution loop
\* ------------------------------------------------------------------------

\* C21: the frame reported with the step of a dispatched action, and the frame size
\* its coordinates were normalised with, were captured after the last action the
\* client executed: no action result lies between the capture and the dispatch,
\* on the retry paths too.
C21_FrameIsCurrent ==
    pc = "result" => (image_after = results /\ size_after = results)

\* C22: when the loop comes to the next model invocation it has sent, in their
\* textual order, all the actions parsed from the turn it read.
C22_AllClausesDispatched ==
    pc = "invoke" => dispatched = parsed_all

\* C26: every run ends, and the loop body is entered at most
\* MAX_ACTIONS_ALLOWED + 1 times: the passes that went on to another pass
\* (dispatch cycles and retries) number at most MAX_ACTIONS_ALLOWED.
C26_Terminates ==
    /\ [](iteration <= MaxActionsAllowed + 1 /\ cycles + retries <= MaxActionsAllowed)
    /\ [](pc = "loop" => iteration = cycles + retries)
    /\ <>(pc = "done")

\* a run of retries and dispatch cycles that ends at the ceiling
C26_Witness ==
    /\ pc = "done" /\ outcome = "budget" /\ iteration = MaxActionsAllowed + 1
    /\ retries > 0 /\ cycles > 0

\* C28: the loop ends with the list of model-authored turns only after a finished
\* action was parsed and its terminal step reported to the recorder.
C28_HistoryOnlyAfterFinished ==
    outcome = "history" => (action.action_type = "finished" /\ tracesDone = 1)

\* C30: on every exit after the hook was created the finally block has run once,
\* has marked the agent trace finished exactly once, and the caller gets the value
\* or the error the try statement ended with.
C30_FinalisedOnceOutcomeKept ==
    pc = "done" =>
        IF lastCall.at = "frame0"
        THEN finalised = 0 /\ trace_finished = 0 /\ delivered = outcome
        ELSE finalised = 1 /\ trace_finished = 1 /\ delivered = outcome

\* ------------------------------------------------------------------------
\* Further properties of the interpreter
\* ------------------------------------------------------------------------

\* the clause is hotkey(key='...') with a key string that names at least one key
HotkeyClause ==
    /\ Calls("hotkey")
    /\ Len(pin.turn.clauses) = 1
    /\ Len(FirstClause.args) = 1
    /\ FirstClause.args[1].name \in {"key", "hotkey"}
    /\ FirstClause.args[1].kind = "str"
    /\ Len(SplitKeys(FirstClause.args[1].s)) >= 1

\* a key name as a chord spells it: the space character for `space`, the arrow
\* keys under their short names
RenderKey(k) == IF k = "space" THEN " " ELSE ArrowKey(k)

\* C24: for a hotkey clause whose key string names k >= 1 keys separated by
\* spaces, parser and synthesizer together give exactly one key-chord command
\* that holds those k keys in their order, `space` as the space character; the
\* chord is never empty.
C24_HotkeyChord ==
    (pstage = "synth" /\ HotkeyClause) =>
        LET keys == SplitKeys(FirstClause.args[1].s)
        IN  /\ pcode.exc = "none"
            /\ Len(pcode.cmds) = 1
            /\ pcode.cmds[1].op = "hotkey"
            /\ pcode.cmds[1].keys = [i \in 1..Len(keys) |-> RenderKey(keys[i])]
            /\ pcode.cmds[1].keys # <<>>

\* the clause is one of the action space, written with the keyword arguments the
\* action space gives it (point, start_point and end_point under the names the
\* parser stores them by)
WellFormed ==
    /\ Len(pin.turn.clauses) = 1
    /\ FirstClause.form = "call"
    /\ LET f == FirstClause.function
           a == FirstClause.args
           names == [i \in 1..Len(a) |-> RenamePoint(a[i].name)]
           IsBox(i) == a[i].kind = "box" /\ Len(a[i].nums) \in {2, 4}
           IsStr(i) == a[i].kind = "str" /\ a[i].s # ""
       IN  CASE f \in {"click", "left_single", "left_double", "right_single", "hover"} ->
                    names = <<"start_box">> /\ IsBox(1)
             [] f \in {"drag", "select"} ->
                    names = <<"start_box", "end_box">> /\ IsBox(1) /\ IsBox(2)
             [] f = "scroll" ->
                    \/ names = <<"direction">> /\ IsStr(1)
                    \/ names = <<"start_box", "direction">> /\ IsBox(1) /\ IsStr(2)
             [] f = "hotkey" -> names = <<"key">> /\ IsStr(1)
             [] f \in {"type", "finished"} -> names = <<"content">> /\ IsStr(1)
             [] f = "wait" -> names = <<>>
             [] OTHER -> FALSE

\* C29: the synthesizer accepts, without raising, every Action the parser made
\* of a well-formed clause of the action space, drag, select and scroll with
\* coordinate boxes included.
C29_WellFormedSynthesized ==
    (pstage = "synth" /\ WellFormed) => pcode.exc = "none"

\* ------------------------------------------------------------------------
\* Further properties of the channel
\* ------------------------------------------------------------------------

\* C27: a message consumed from the channel that answers a request answers the
\* request sent last, the one whose answer is awaited: an answer to an earlier
\* request is never consumed as the answer to a later one.
C27_ResponsesPaired ==
    /\ (shot.stage = "ended" /\ shot.got.re # 0) => shot.got.re = shot.before + 1
    /\ (disp.stage = "ended" /\ disp.got.re # 0) => disp.got.re = disp.before + 1

====
